---- MODULE Spec2Model ----
(***************************************************************************)
(* Model of src/server/redis_manager.py: RedisCache (key derivation, get,  *)
(* set, delete, clear_pattern, clear_all, cache_result) and RateLimiter,   *)
(* over a key-value store with expiry.                                     *)
(*                                                                         *)
(* Text is a sequence of one-character strings, so that length, joining,   *)
(* ordering and glob matching are computed character by character.         *)
(* Python values are records tagged with their type.                       *)
(***************************************************************************)
EXTENDS Bags, Integers, Sequences, FiniteSets, TLC

VARIABLES
  connected,   \* RedisCache.connected
  store,       \* the key-value store: key -> [val, exp]
  now,         \* the store's clock, in whole seconds
  ret,         \* the last call: what was called, what it returned
  last,        \* per key, the latest successful set not followed by a removal
  kg,          \* a _generate_key call: its inputs and the key it returned
  rl,          \* per identifier, the is_allowed calls of the current window
  racers,      \* concurrent calls: where each caller stands
  sync_records,\* TimeSyncManager.sync_records, in insertion order
  clock        \* datetime.now(), in microseconds

vars == <<connected, store, now, ret, last, kg, rl, racers, sync_records,
          clock>>

----------------------------------------------------------------------------
(* Bounds of the model *)

\* the clock runs from 0 to MaxTime
MaxTime == 2
\* ttl and window values offered to set / is_allowed are 0..MaxTtl
MaxTtl == 1
\* max_requests values offered to is_allowed are 1..MaxRequests
MaxRequests == 3
\* how far past the length threshold the longest composed key reaches
LongExtra == 4
\* the number of callers whose calls may overlap
NumCallers == 2

Callers == 1..NumCallers

----------------------------------------------------------------------------
(* Text *)

\* the characters in use, in code point order
Alphabet ==
  << "*", "0", "1", "2", "3", "4", "5", "6", "7", "8", "9", ":", "?",
     "F", "N", "T", "a", "b", "c", "d", "e", "f", "g", "h", "i", "j", "k",
     "l", "m", "n", "o", "p", "q", "r", "s", "t", "u", "v", "w", "x", "y",
     "z" >>

\* the rank of each character in that order
OrdTable ==
  [c \in {Alphabet[i] : i \in 1..Len(Alphabet)} |->
     CHOOSE i \in 1..Len(Alphabet) : Alphabet[i] = c]

Ord(c) == OrdTable[c]

\* Python's < on str: lexicographic by code point, a proper prefix is smaller
RECURSIVE StrLess(_, _)
StrLess(a, b) ==
  IF b = <<>> THEN FALSE
  ELSE IF a = <<>> THEN TRUE
  ELSE IF Head(a) = Head(b) THEN StrLess(Tail(a), Tail(b))
  ELSE Ord(Head(a)) < Ord(Head(b))

Rep(c, n) == [i \in 1..n |-> c]

\* sep.join(parts)
RECURSIVE Join(_, _)
Join(parts, sep) ==
  IF parts = <<>> THEN <<>>
  ELSE IF Len(parts) = 1 THEN parts[1]
  ELSE parts[1] \o sep \o Join(Tail(parts), sep)

Digits == <<"0", "1", "2", "3", "4", "5", "6", "7", "8", "9">>

\* the decimal digits of a natural number
RECURSIVE Decimal(_)
Decimal(n) ==
  IF n < 10 THEN <<Digits[n + 1]>>
  ELSE Decimal(n \div 10) \o <<Digits[(n % 10) + 1]>>

----------------------------------------------------------------------------
(* Python values *)

PyNone == [t |-> "None"]
PyBool(b) == [t |-> "bool", b |-> b]
PyInt(n) == [t |-> "int", n |-> n]
PyStr(s) == [t |-> "str", s |-> s]
PyList(xs) == [t |-> "list", xs |-> xs]
PyTuple(xs) == [t |-> "tuple", xs |-> xs]
\* a dict with str keys: kv maps each key to its value
PyDict(kv) == [t |-> "dict", kv |-> kv]
\* a value json cannot serialize (a set, bytes, a datetime, ...)
PyObject == [t |-> "object"]

\* str(arg)
str(x) ==
  CASE x.t = "str" -> x.s
    [] x.t = "int" -> Decimal(x.n)
    [] x.t = "bool" -> IF x.b THEN <<"T", "r", "u", "e">>
                       ELSE <<"F", "a", "l", "s", "e">>
    [] OTHER -> <<"N", "o", "n", "e">>

----------------------------------------------------------------------------
(* RedisCache._generate_key *)

\* len(key) > KEY_LIMIT selects the hashed form
KEY_LIMIT == 256
\* the length of an md5 hexdigest
DIGEST_LEN == 32

HexDigits ==
  << "0", "1", "2", "3", "4", "5", "6", "7", "8", "9", "a", "b", "c", "d",
     "e", "f" >>

\* the code point of each character in use
CodePoints ==
  [c \in {Alphabet[i] : i \in 1..Len(Alphabet)} |->
     CASE c = "*" -> 42
       [] c = ":" -> 58
       [] c = "?" -> 63
       [] c = "F" -> 70
       [] c = "N" -> 78
       [] c = "T" -> 84
       [] Ord(c) \in 2..11 -> 48 + (Ord(c) - 2)
       [] OTHER -> 97 + (Ord(c) - 17)]

\* key.encode(): the characters in use are ASCII, one byte each
encode(s) == [i \in 1..Len(s) |-> CodePoints[s[i]]]

\* MD5 (RFC 1321), the algorithm of hashlib.md5. A 32-bit word is the pair
\* <<high half, low half>> of its 16-bit halves.

\* bit k of x
Bit(x, k) == (x \div (2 ^ k)) % 2

\* x AND y for 4-bit x and y
AndNibble ==
  [a \in 0..15 |-> [b \in 0..15 |->
     Bit(a, 0) * Bit(b, 0) + 2 * Bit(a, 1) * Bit(b, 1)
       + 4 * Bit(a, 2) * Bit(b, 2) + 8 * Bit(a, 3) * Bit(b, 3)]]

\* x AND y for 16-bit x and y, nibble by nibble with the table t
AndNibbles(t, x, y) ==
  t[x % 16][y % 16]
    + 16 * t[(x \div 16) % 16][(y \div 16) % 16]
    + 256 * t[(x \div 256) % 16][(y \div 256) % 16]
    + 4096 * t[x \div 4096][y \div 4096]

And16(x, y) == AndNibbles(AndNibble, x, y)

Not16(x) == 65535 - x
Xor16(x, y) == x + y - 2 * And16(x, y)
Or16(x, y) == x + y - And16(x, y)

\* the round functions F, G, H, I on 16-bit halves
MD5_F(b, c, d) == And16(b, c) + And16(Not16(b), d)
MD5_G(b, c, d) == And16(b, d) + And16(c, Not16(d))
MD5_H(b, c, d) == Xor16(Xor16(b, c), d)
MD5_I(b, c, d) == Xor16(c, Or16(b, Not16(d)))

Round16(i, b, c, d) ==
  IF i < 16 THEN MD5_F(b, c, d)
  ELSE IF i < 32 THEN MD5_G(b, c, d)
  ELSE IF i < 48 THEN MD5_H(b, c, d)
  ELSE MD5_I(b, c, d)

\* the index of the message word used in operation i (from 0)
MessageIndex(i) ==
  IF i < 16 THEN i
  ELSE IF i < 32 THEN (5 * i + 1) % 16
  ELSE IF i < 48 THEN (3 * i + 5) % 16
  ELSE (7 * i) % 16

\* addition modulo 2^32
Add32(x, y) ==
  <<(x[1] + y[1] + ((x[2] + y[2]) \div 65536)) % 65536,
    (x[2] + y[2]) % 65536>>

Pow2(n) == 2 ^ n

\* rotation to the left by m bits, 0 <= m < 16, of the word <<hi, lo>>
RotateHalves(hi, lo, m) ==
  <<((hi * Pow2(m)) % 65536) + (lo \div Pow2(16 - m)),
    ((lo * Pow2(m)) % 65536) + (hi \div Pow2(16 - m))>>

\* rotation to the left by n bits, 0 < n < 32
RotateLeft(x, n) ==
  IF n < 16 THEN RotateHalves(x[1], x[2], n)
  ELSE RotateHalves(x[2], x[1], n - 16)

MD5_S ==
  << 7, 12, 17, 22, 7, 12, 17, 22, 7, 12, 17, 22, 7, 12, 17, 22,
     5, 9, 14, 20, 5, 9, 14, 20, 5, 9, 14, 20, 5, 9, 14, 20,
     4, 11, 16, 23, 4, 11, 16, 23, 4, 11, 16, 23, 4, 11, 16, 23,
     6, 10, 15, 21, 6, 10, 15, 21, 6, 10, 15, 21, 6, 10, 15, 21 >>

MD5_K ==
  <<
     <<55146, 42104>>, <<59591, 46934>>, <<9248, 28891>>, <<49597, 52974>>,
     <<62844, 4015>>, <<18311, 50730>>, <<43056, 17939>>, <<64838, 38145>>,
     <<27008, 39128>>, <<35652, 63407>>, <<65535, 23473>>, <<35164, 55230>>,
     <<27536, 4386>>, <<64920, 29075>>, <<42617, 17294>>, <<18868, 2081>>,
     <<63006, 9570>>, <<49216, 45888>>, <<9822, 23121>>, <<59830, 51114>>,
     <<54831, 4189>>, <<580, 5203>>, <<55457, 59009>>, <<59347, 64456>>,
     <<8673, 52710>>, <<49975, 2006>>, <<62677, 3463>>, <<17754, 5357>>,
     <<43491, 59653>>, <<64751, 41976>>, <<26479, 729>>, <<36138, 19594>>,
     <<65530, 14658>>, <<34673, 63105>>, <<28061, 24866>>, <<64997, 14348>>,
     <<42174, 59972>>, <<19422, 53161>>, <<63163, 19296>>, <<48831, 48240>>,
     <<10395, 32454>>, <<60065, 10234>>, <<54511, 12421>>, <<1160, 7429>>,
     <<55764, 53305>>, <<59099, 39397>>, <<8098, 31992>>, <<50348, 22117>>,
     <<62505, 8772>>, <<17194, 65431>>, <<43924, 9127>>, <<64659, 41017>>,
     <<25947, 22979>>, <<36620, 52370>>, <<65519, 62589>>, <<34180, 24017>>,
     <<28584, 32335>>, <<65068, 59104>>, <<41729, 17172>>, <<19976, 4513>>,
     <<63315, 32386>>, <<48442, 62005>>, <<10967, 53947>>, <<60294, 54161>> >>

MD5_INIT ==
  << <<26437, 8961>>, <<61389, 43913>>, <<39098, 56574>>, <<4146, 21622>> >>

\* the operations i..n-1 on one block: st is <<A, B, C, D>>, w its 16 words
RECURSIVE Operations(_, _, _, _)
Operations(i, n, st, w) ==
  IF i = n \/ Len(st) # 4 THEN st
  ELSE LET f == <<Round16(i, st[2][1], st[3][1], st[4][1]),
                  Round16(i, st[2][2], st[3][2], st[4][2])>>
           sum == Add32(Add32(f, st[1]),
                        Add32(MD5_K[i + 1], w[MessageIndex(i) + 1]))
       IN  Operations(i + 1, n,
                      <<st[4], Add32(st[2], RotateLeft(sum, MD5_S[i + 1])),
                        st[2], st[3]>>,
                      w)

\* the rounds r..3 of 16 operations each
RECURSIVE RoundsFrom(_, _, _)
RoundsFrom(r, st, w) ==
  IF r = 4 \/ Len(st) # 4 THEN st
  ELSE RoundsFrom(r + 1, Operations(16 * r, 16 * r + 16, st, w), w)

\* the four rounds
Rounds(st, w) == RoundsFrom(0, st, w)

\* the message with its padding: a 1 bit, zeros up to 56 modulo 64 bytes,
\* and the length in bits as 8 bytes, low byte first
Padded(bytes) ==
  LET n == Len(bytes)
      zeros == (55 - n) % 64
      bits == 8 * n
  IN  bytes \o <<128>> \o [i \in 1..zeros |-> 0]
        \o <<bits % 256, (bits \div 256) % 256, (bits \div 65536) % 256,
             bits \div 16777216, 0, 0, 0, 0>>

\* the 16 words of block k (from 0), each of 4 bytes, low byte first
BlockWords(p, k) ==
  [j \in 1..16 |->
     LET o == 64 * k + 4 * (j - 1)
     IN  <<p[o + 3] + 256 * p[o + 4], p[o + 1] + 256 * p[o + 2]>>]

\* the state after a block: the words of st and r added
AddState(st, r) ==
  <<Add32(st[1], r[1]), Add32(st[2], r[2]),
    Add32(st[3], r[3]), Add32(st[4], r[4])>>

RECURSIVE Blocks(_, _, _)
Blocks(p, k, st) ==
  IF 64 * k >= Len(p) \/ Len(st) # 4 THEN st
  ELSE Blocks(p, k + 1, AddState(st, Rounds(st, BlockWords(p, k))))

\* the two hexadecimal digits of a byte
HexByte(b) == <<HexDigits[(b \div 16) + 1], HexDigits[(b % 16) + 1]>>

\* the 8 digits of a word, low byte first
HexWord(x) ==
  HexByte(x[2] % 256) \o HexByte(x[2] \div 256)
    \o HexByte(x[1] % 256) \o HexByte(x[1] \div 256)

\* the 32 digits of the state
HexState(st) ==
  HexWord(st[1]) \o HexWord(st[2]) \o HexWord(st[3]) \o HexWord(st[4])

\* hashlib.md5(data).hexdigest()
md5(bytes) == HexState(Blocks(Padded(bytes), 0, MD5_INIT))

SearchPrefix == <<"s", "e", "a", "r", "c", "h">>

\* a user id, and one that extends it past a colon
SearchUsers == { <<"u">>, <<"u", ":", "x">> }

\* a query that takes the key of a search past the threshold
LongQuery == Rep("q", KEY_LIMIT)

\* the composed keys of the long searches, which are hashed in many states,
\* and their digests, computed once
LongSearchTexts ==
  { SearchPrefix \o <<":">> \o u \o <<":">> \o LongQuery : u \in SearchUsers }

LongSearchDigests == [s \in LongSearchTexts |-> md5(encode(s))]

\* hashlib.md5(key.encode()).hexdigest()
md5_hexdigest(s) ==
  IF s \in LongSearchTexts THEN LongSearchDigests[s] ELSE md5(encode(s))

\* sorted(kwargs.items()): insertion into a list ordered by the name; the
\* names of one call are distinct, so the values are never compared
RECURSIVE InsertItem(_, _)
InsertItem(item, sortedItems) ==
  IF sortedItems = <<>> THEN <<item>>
  ELSE IF StrLess(item[1], Head(sortedItems)[1])
       THEN <<item>> \o sortedItems
       ELSE <<Head(sortedItems)>> \o InsertItem(item, Tail(sortedItems))

RECURSIVE sorted_items(_)
sorted_items(items) ==
  IF items = <<>> THEN <<>>
  ELSE InsertItem(Head(items), sorted_items(Tail(items)))

\* a faulty variant of sorted_kwargs: the items in the order they were supplied
unsorted_kwargs(kwargs) == kwargs

sorted_kwargs(kwargs) == sorted_items(kwargs)

\* key_parts: [prefix] + [str(arg) for arg in args] + [f"{k}:{v}" ...]
key_parts(prefix, args, kwargs) ==
  <<prefix>>
    \o [i \in 1..Len(args) |-> str(args[i])]
    \o (IF kwargs = <<>> THEN <<>>
        ELSE LET sk == sorted_kwargs(kwargs)
             IN  [i \in 1..Len(sk) |-> sk[i][1] \o <<":">> \o str(sk[i][2])])

\* the key before the length test
composed_key(prefix, args, kwargs) == Join(key_parts(prefix, args, kwargs), <<":">>)

\* kwargs is the sequence of <<name, value>> pairs in the order supplied
_generate_key(prefix, args, kwargs) ==
  LET key == composed_key(prefix, args, kwargs)
  IN  IF Len(key) > KEY_LIMIT
      THEN prefix \o <<":">> \o md5_hexdigest(key)
      ELSE key

----------------------------------------------------------------------------
(* Inputs of _generate_key *)

\* prefixes: two namespaces, and one long enough that prefix + ":" + digest
\* alone passes the threshold
KeyPrefixes ==
  { <<"s">>, <<"m", "e", "m">>, Rep("p", KEY_LIMIT - DIGEST_LEN) }

\* positional arguments: short ones, and text that brings the composed key of
\* prefix "s" to exactly KEY_LIMIT, to KEY_LIMIT + 1 and beyond
KeyArgs ==
  { PyStr(<<"a">>), PyInt(10), PyNone,
    PyStr(Rep("a", KEY_LIMIT - 2)), PyStr(Rep("a", KEY_LIMIT - 1)),
    PyStr(Rep("b", KEY_LIMIT + LongExtra)) }

KeyArgLists == {<<>>} \cup {<<a>> : a \in KeyArgs}

KwNames == { <<"a">>, <<"a", "b">>, <<"b">> }
KwValues == { PyInt(1), PyStr(<<"x">>) }

\* keyword arguments in every order of supply: sequences of up to three
\* items with distinct names
KwLists ==
  {<<>>}
    \cup {<<<<n, v>>>> : n \in KwNames, v \in KwValues}
    \cup {<<<<n1, PyInt(1)>>, <<n2, v>>>> :
            n1 \in KwNames, n2 \in KwNames, v \in KwValues}
    \cup {<<<<n1, PyInt(1)>>, <<n2, PyStr(<<"x">>)>>, <<n3, PyInt(2)>>>> :
            n1 \in KwNames, n2 \in KwNames, n3 \in KwNames}

DistinctNames(kw) ==
  \A i, j \in 1..Len(kw) : i # j => kw[i][1] # kw[j][1]

\* the orders in which the same keyword arguments can be supplied
Reorderings(kw) ==
  { [i \in 1..Len(kw) |-> kw[p[i]]] :
      p \in { q \in [1..Len(kw) -> 1..Len(kw)] :
                \A i, j \in 1..Len(kw) : i # j => q[i] # q[j] } }

NoKey == [called |-> FALSE]

\* no concurrent callers
NoRacers == [max |-> 0]

----------------------------------------------------------------------------
(* json.dumps / json.loads *)

\* A JSON text is kept as the document it denotes. json.dumps writes a list
\* and a tuple as the same array; it raises TypeError on a value it cannot
\* serialize.
RECURSIVE json_serializable(_)
json_serializable(x) ==
  IF x.t = "dict" THEN \A k \in DOMAIN x.kv : json_serializable(x.kv[k])
  ELSE x.t # "object"

RECURSIVE json_dumps(_)
json_dumps(x) ==
  CASE x.t = "None" -> [j |-> "null"]
    [] x.t = "bool" -> [j |-> "bool", b |-> x.b]
    [] x.t = "int" -> [j |-> "number", n |-> x.n]
    [] x.t = "str" -> [j |-> "string", s |-> x.s]
    [] x.t \in {"list", "tuple"} -> [j |-> "array", xs |-> x.xs]
    [] x.t = "dict" ->
         [j |-> "object", kv |-> [k \in DOMAIN x.kv |-> json_dumps(x.kv[k])]]

\* text in the store that is not JSON (written by another client)
RawText == [j |-> "raw"]

json_parses(doc) == doc.j # "raw"

\* json.loads: every array is read back as a list
RECURSIVE json_loads(_)
json_loads(doc) ==
  CASE doc.j = "null" -> PyNone
    [] doc.j = "bool" -> PyBool(doc.b)
    [] doc.j = "number" -> PyInt(doc.n)
    [] doc.j = "string" -> PyStr(doc.s)
    [] doc.j = "array" -> PyList(doc.xs)
    [] doc.j = "object" ->
         PyDict([k \in DOMAIN doc.kv |-> json_loads(doc.kv[k])])

\* bool(x) as `if ttl:` takes it
truthy(x) ==
  CASE x.t = "None" -> FALSE
    [] x.t = "int" -> x.n # 0
    [] x.t = "bool" -> x.b
    [] OTHER -> TRUE

----------------------------------------------------------------------------
(* The store's commands, as redis_client issues them *)

\* exp of an entry without expiry
NoExpiry == -1

\* the reply for a key that does not exist
Nil == [j |-> "nil"]

redis_get(s, k) == IF k \in DOMAIN s THEN s[k].val ELSE Nil

Put(s, k, e) == [x \in DOMAIN s \cup {k} |-> IF x = k THEN e ELSE s[x]]

\* SETEX refuses an expire time that is not positive
redis_setex_valid(ttl) == ttl.t = "int" /\ ttl.n > 0

redis_setex(s, k, ttl, doc) == Put(s, k, [val |-> doc, exp |-> now + ttl.n])

redis_set(s, k, doc) == Put(s, k, [val |-> doc, exp |-> NoExpiry])

redis_delete(s, ks) == [x \in DOMAIN s \ ks |-> s[x]]

\* glob-style matching of KEYS: * is any run of characters, ? is any one
RECURSIVE GlobMatch(_, _)
GlobMatch(p, s) ==
  IF p = <<>> THEN s = <<>>
  ELSE IF Head(p) = "*"
       THEN GlobMatch(Tail(p), s) \/ (s # <<>> /\ GlobMatch(p, Tail(s)))
       ELSE /\ s # <<>>
            /\ (Head(p) = "?" \/ Head(p) = Head(s))
            /\ GlobMatch(Tail(p), Tail(s))

redis_keys(s, pattern) == {k \in DOMAIN s : GlobMatch(pattern, k)}

redis_flushdb(s) == [x \in {} |-> Nil]

\* INCR: a missing key counts from 0 and is created without expiry; an
\* existing key keeps its expiry
redis_incr(s, k) ==
  IF k \in DOMAIN s
  THEN [s EXCEPT ![k].val = [j |-> "number", n |-> @.n + 1]]
  ELSE Put(s, k, [val |-> [j |-> "number", n |-> 1], exp |-> NoExpiry])

\* the entries whose expiry has passed at time t are gone
Expire(s, t) ==
  [x \in {k \in DOMAIN s : s[k].exp = NoExpiry \/ s[k].exp > t} |-> s[x]]

----------------------------------------------------------------------------
(* RedisCache.get / set / delete / clear_pattern / clear_all *)

\* what a call did: the value returned (or raised = TRUE), the store it
\* leaves, and the number of round trips to the store it made
Out(val, st, rt) == [val |-> val, raised |-> FALSE, st |-> st, rt |-> rt]
Raised(st, rt) == [val |-> PyNone, raised |-> TRUE, st |-> st, rt |-> rt]

\* a faulty variant of get: no except clause around the store call
get_noexcept(key, failing) ==
  IF ~connected THEN Out(PyNone, store, 0)
  ELSE IF failing THEN Raised(store, 1)
  ELSE LET value == redis_get(store, key)
       IN  IF value = Nil THEN Out(PyNone, store, 1)
           ELSE IF ~json_parses(value) THEN Raised(store, 1)
           ELSE Out(json_loads(value), store, 1)

\* failing: the store call of this get raises. The text of an entry is never
\* empty here, so `if value:` is the test for a missing key.
get(key, failing) ==
  IF ~connected THEN Out(PyNone, store, 0)
  ELSE IF failing THEN Out(PyNone, store, 1)
  ELSE LET value == redis_get(store, key)
       IN  IF value = Nil THEN Out(PyNone, store, 1)
           ELSE IF ~json_parses(value) THEN Out(PyNone, store, 1)
           ELSE Out(json_loads(value), store, 1)

\* a faulty variant of set: the ttl is dropped, every entry is persistent
set_no_ttl(key, value, ttl, failing) ==
  IF ~connected THEN Out(PyBool(FALSE), store, 0)
  ELSE IF ~json_serializable(value) THEN Out(PyBool(FALSE), store, 0)
  ELSE IF failing THEN Out(PyBool(FALSE), store, 1)
  ELSE Out(PyBool(TRUE), redis_set(store, key, json_dumps(value)), 1)

\* a faulty variant of set: an existing entry is kept (SET NX)
set_nx(key, value, ttl, failing) ==
  IF ~connected THEN Out(PyBool(FALSE), store, 0)
  ELSE IF ~json_serializable(value) THEN Out(PyBool(FALSE), store, 0)
  ELSE IF failing THEN Out(PyBool(FALSE), store, 1)
  ELSE IF key \in DOMAIN store THEN Out(PyBool(TRUE), store, 1)
  ELSE IF truthy(ttl)
       THEN IF ~redis_setex_valid(ttl) THEN Out(PyBool(FALSE), store, 1)
            ELSE Out(PyBool(TRUE), redis_setex(store, key, ttl, json_dumps(value)), 1)
       ELSE Out(PyBool(TRUE), redis_set(store, key, json_dumps(value)), 1)

\* a faulty variant of set: no except clause around the store call
set_noexcept(key, value, ttl, failing) ==
  IF ~connected THEN Out(PyBool(FALSE), store, 0)
  ELSE IF ~json_serializable(value) THEN Raised(store, 0)
  ELSE IF failing THEN Raised(store, 1)
  ELSE IF truthy(ttl)
       THEN IF ~redis_setex_valid(ttl) THEN Raised(store, 1)
            ELSE Out(PyBool(TRUE), redis_setex(store, key, ttl, json_dumps(value)), 1)
       ELSE Out(PyBool(TRUE), redis_set(store, key, json_dumps(value)), 1)

set(key, value, ttl, failing) ==
  IF ~connected THEN Out(PyBool(FALSE), store, 0)
  ELSE IF ~json_serializable(value) THEN Out(PyBool(FALSE), store, 0)
  ELSE IF failing THEN Out(PyBool(FALSE), store, 1)
  ELSE IF truthy(ttl)
       THEN IF ~redis_setex_valid(ttl) THEN Out(PyBool(FALSE), store, 1)
            ELSE Out(PyBool(TRUE), redis_setex(store, key, ttl, json_dumps(value)), 1)
       ELSE Out(PyBool(TRUE), redis_set(store, key, json_dumps(value)), 1)

\* a faulty variant of delete: the disabled cache reports success
delete_true(key, failing) ==
  IF ~connected THEN Out(PyBool(TRUE), store, 0)
  ELSE IF failing THEN Out(PyBool(FALSE), store, 1)
  ELSE Out(PyBool(TRUE), redis_delete(store, {key}), 1)

delete(key, failing) ==
  IF ~connected THEN Out(PyBool(FALSE), store, 0)
  ELSE IF failing THEN Out(PyBool(FALSE), store, 1)
  ELSE Out(PyBool(TRUE), redis_delete(store, {key}), 1)

\* where clear_pattern stands after its KEYS (line 103): pending tells that
\* keys were found and the DEL comes next, otherwise out is what the call
\* returns
ClearStep(pending, keys, out) == [pending |-> pending, keys |-> keys, out |-> out]

\* clear_pattern up to and including its KEYS; failing: the KEYS raises
clear_pattern_keys(pattern, failing) ==
  IF ~connected THEN ClearStep(FALSE, {}, Out(PyInt(0), store, 0))
  ELSE IF failing THEN ClearStep(FALSE, {}, Out(PyInt(0), store, 1))
  ELSE LET keys == redis_keys(store, pattern)
       IN  IF keys = {} THEN ClearStep(FALSE, {}, Out(PyInt(0), store, 1))
           ELSE ClearStep(TRUE, keys, Out(PyInt(0), store, 1))

\* the DEL of clear_pattern (line 105) on the keys its KEYS found, in the
\* store as it is by then: DEL returns the number of keys it removed;
\* failing: the DEL raises
clear_pattern_del(keys, failing) ==
  IF failing THEN Out(PyInt(0), store, 2)
  ELSE Out(PyInt(Cardinality(keys \cap DOMAIN store)),
           redis_delete(store, keys), 2)

clear_all(failing) ==
  IF ~connected THEN Out(PyBool(FALSE), store, 0)
  ELSE IF failing THEN Out(PyBool(FALSE), store, 1)
  ELSE Out(PyBool(TRUE), redis_flushdb(store), 1)

----------------------------------------------------------------------------
(* RedisCache.cache_result *)

\* what a call of the wrapper did: invoked counts the calls of the wrapped
\* function, stored tells whether self.set reported the result written
WrapOut(val, raised, st, rt, invoked, stored) ==
  [val |-> val, raised |-> raised, st |-> st, rt |-> rt,
   invoked |-> invoked, stored |-> stored]

\* wrapper(*args, **kwargs) of the function decorated with
\* cache_result(prefix, ttl), up to and including its self.get (line 142):
\* miss tells that func and self.set come next, otherwise out is what the
\* wrapper returns. An exception of get or set would pass through the
\* wrapper, which has no try of its own
wrapper_get(prefix, args, kwargs, failGet) ==
  LET key == _generate_key(prefix, args, kwargs)
      cached == get(key, failGet)
  IN  IF cached.raised
      THEN [miss |-> FALSE, rt |-> cached.rt,
            out |-> WrapOut(PyNone, TRUE, store, cached.rt, 0, FALSE)]
      ELSE IF cached.val # PyNone
      THEN [miss |-> FALSE, rt |-> cached.rt,
            out |-> WrapOut(cached.val, FALSE, store, cached.rt, 0, FALSE)]
      ELSE [miss |-> TRUE, rt |-> cached.rt,
            out |-> WrapOut(PyNone, FALSE, store, cached.rt, 0, FALSE)]

\* the wrapper after a miss: func is called (line 149) and returns result,
\* which self.set writes to the store as it is by then (line 152); rt is
\* the number of round trips the wrapper had made before
wrapper_set(key, ttl, result, rt, failSet) ==
  LET written == set(key, result, ttl, failSet)
  IN  IF written.raised
      THEN WrapOut(PyNone, TRUE, written.st, rt + written.rt, 1, FALSE)
      ELSE WrapOut(result, FALSE, written.st, rt + written.rt, 1,
                   written.val = PyBool(TRUE))

----------------------------------------------------------------------------
(* What the callers were promised: per key, the latest successful set that  *)
(* no delete, clear_pattern or clear_all has followed                      *)

Unset == [st |-> "unset"]
Expired == [st |-> "expired"]
Promised(v, exp) == [st |-> "live", v |-> v, exp |-> exp]

\* set(k, v, ttl) returned true at time now: ttl None is no expiry, a
\* positive ttl ends at now + ttl, and nothing is promised for ttl 0
AfterSet(v, ttl) ==
  IF ttl = PyNone THEN Promised(v, NoExpiry)
  ELSE IF ttl.n > 0 THEN Promised(v, now + ttl.n)
  ELSE Unset

\* at time t the ttl of a promise has elapsed
AfterTick(p, t) ==
  IF p.st = "live" /\ p.exp # NoExpiry /\ p.exp <= t THEN Expired ELSE p

\* what json makes of a value on the way into the store and out again
RoundTrip(v) == json_loads(json_dumps(v))

----------------------------------------------------------------------------
(* The cache and its callers *)

\* "a:1": a key of namespace "a"; "b": a key of another namespace
CacheKeys == { <<"a", ":", "1">>, <<"b">> }

CachePatterns == { <<"a", ":", "*">>, <<"?">>, <<"c", "*">> }

\* values handed to set: JSON-native ones, a tuple, and an object json
\* cannot serialize
CacheValues == { PyNone, PyInt(7), PyTuple(<<1, 2>>), PyObject }

\* ttl arguments: None, a negative number, 0, and 1..MaxTtl
TtlInputs == {PyNone} \cup {PyInt(n) : n \in -1..MaxTtl}

EmptyStore == [x \in {} |-> Nil]

NoCall == [op |-> "none"]

\* the record of a call: fail tells that a store call of it was made to
\* raise, arg is the value handed to set (None for the other calls)
Call(op, key, arg, o, fail) ==
  [op |-> op, key |-> key, arg |-> arg, val |-> o.val, raised |-> o.raised,
   rt |-> o.rt, changed |-> (o.st # store), fail |-> fail]

CallGet ==
  \E k \in CacheKeys, f \in BOOLEAN :
    LET o == get(k, f)
    IN  /\ store' = o.st
        /\ ret' = Call("get", k, PyNone, o, f)
        /\ UNCHANGED <<connected, now, last, kg, rl, racers,
                       sync_records, clock>>

CallSet ==
  \E k \in CacheKeys, v \in CacheValues, ttl \in TtlInputs, f \in BOOLEAN :
    LET o == set(k, v, ttl, f)
    IN  /\ store' = o.st
        /\ ret' = Call("set", k, v, o, f)
        /\ last' = IF ~o.raised /\ o.val = PyBool(TRUE)
                   THEN [last EXCEPT ![k] = AfterSet(v, ttl)]
                   ELSE last
        /\ UNCHANGED <<connected, now, kg, rl, racers,
                       sync_records, clock>>

CallDelete ==
  \E k \in CacheKeys, f \in BOOLEAN :
    LET o == delete(k, f)
    IN  /\ store' = o.st
        /\ ret' = Call("delete", k, PyNone, o, f)
        /\ last' = [last EXCEPT ![k] = Unset]
        /\ UNCHANGED <<connected, now, kg, rl, racers,
                       sync_records, clock>>

\* racers.calls is the bag of the calls that are between two of their round
\* trips to the store, at most NumCallers of them. Of a clear_pattern
\* between its KEYS and its DEL it holds the pattern and the keys found
NoCalls == [calls |-> EmptyBag]

\* a call joins, and leaves, the calls in progress
Enter(call) == [calls |-> racers.calls (+) SetToBag({call})]
Leave(call) == [calls |-> racers.calls (-) SetToBag({call})]

\* the promises on the keys that pattern p matches are over
Cleared(p) ==
  [k \in DOMAIN last |-> IF GlobMatch(p, k) THEN Unset ELSE last[k]]

\* a caller calls clear_pattern(p): the call up to its KEYS. It returns here
\* unless the KEYS found keys
CallClearPattern ==
  /\ BagCardinality(racers.calls) < NumCallers
  /\ \E p \in CachePatterns, f \in BOOLEAN :
       LET k == clear_pattern_keys(p, f)
       IN  /\ IF k.pending
              THEN /\ racers' = Enter([pattern |-> p, keys |-> k.keys])
                   /\ ret' = [op |-> "keys"]
              ELSE /\ racers' = racers
                   /\ ret' = Call("clear_pattern", p, PyNone, k.out, f)
           /\ last' = Cleared(p)
           /\ UNCHANGED <<connected, store, now, kg, rl, sync_records, clock>>

\* the DEL of a clear_pattern in progress; other calls and the passing of
\* time may have come between its KEYS and this
ClearPatternDel ==
  \E call \in BagToSet(racers.calls), f \in BOOLEAN :
    LET o == clear_pattern_del(call.keys, f)
    IN  /\ store' = o.st
        /\ ret' = Call("clear_pattern", call.pattern, PyNone, o, f)
        /\ last' = Cleared(call.pattern)
        /\ racers' = Leave(call)
        /\ UNCHANGED <<connected, now, kg, rl, sync_records, clock>>

CallClearAll ==
  \E f \in BOOLEAN :
    LET o == clear_all(f)
    IN  /\ store' = o.st
        /\ ret' = Call("clear_all", <<>>, PyNone, o, f)
        /\ last' = [k \in DOMAIN last |-> Unset]
        /\ UNCHANGED <<connected, now, kg, rl, racers,
                       sync_records, clock>>

\* a second passes; the store drops the entries whose expiry is reached
Tick ==
  /\ now < MaxTime
  /\ now' = now + 1
  /\ store' = Expire(store, now + 1)
  /\ ret' = [op |-> "tick"]
  /\ last' = [k \in DOMAIN last |-> AfterTick(last[k], now + 1)]
  /\ UNCHANGED <<connected, kg, rl, racers,
                 sync_records, clock>>

\* RedisCache.__init__: connected tells whether from_url and ping succeeded;
\* the store may already hold text of another client
Init ==
  /\ connected \in BOOLEAN
  /\ store \in { EmptyStore,
                 [k \in {<<"b">>} |-> [val |-> RawText, exp |-> NoExpiry]] }
  /\ now = 0
  /\ sync_records = <<>>
  /\ clock = 0
  /\ ret = NoCall
  /\ last = [k \in CacheKeys |-> Unset]
  /\ kg = NoKey
  /\ rl = <<>>
  /\ racers = NoCalls

Next ==
  \/ CallGet
  \/ CallSet
  \/ CallDelete
  \/ CallClearPattern
  \/ ClearPatternDel
  \/ CallClearAll
  \/ Tick

Spec == Init /\ [][Next]_vars

----------------------------------------------------------------------------
(* Claims about get / set / delete / clear_pattern / clear_all (Spec) *)

CacheOps == {"get", "set", "delete", "clear_pattern", "clear_all"}

\* the safe default of each operation
SafeDefault(op) ==
  CASE op = "get" -> PyNone
    [] op = "clear_pattern" -> PyInt(0)
    [] OTHER -> PyBool(FALSE)

\* the call returned its safe default without raising, made no round trip
\* to the store and left the store as it was
DisabledNoOp(r) ==
  r.op \in CacheOps =>
    /\ ~r.raised
    /\ r.val = SafeDefault(r.op)
    /\ r.rt = 0
    /\ ~r.changed

\* C1: a cache whose connection attempt failed stays disabled, and every
\* call on it returns its safe default (get none, set / delete / clear_all
\* false, clear_pattern 0) without raising and without reading or writing
\* the store.
C1_DisabledNoOp ==
  [][~connected => (~connected' /\ DisabledNoOp(ret'))]_vars

\* a disabled cache was asked to clear a pattern that matches an entry of the
\* store
C1_Witness ==
  /\ ~connected
  /\ ret.op = "clear_pattern"
  /\ redis_keys(store, ret.key) # {}

\* a store call of the operation was made to raise, or json.dumps raised
FailedCall(r) ==
  /\ r.op \in CacheOps
  /\ r.fail \/ (r.op = "set" /\ ~json_serializable(r.arg))

\* C2: on a connected cache a call in which a store call (or the
\* serialization) fails returns its safe default without raising and leaves
\* the store as it was, and the cache stays connected: the next get makes
\* its round trip.
C2_TransientFailure ==
  [][connected =>
       /\ connected'
       /\ FailedCall(ret') => /\ ~ret'.raised
                              /\ ret'.val = SafeDefault(ret'.op)
                              /\ ~ret'.changed
       /\ ret'.op = "get" => ret'.rt = 1]_vars

\* the DEL of a clear_pattern failed after its KEYS had found entries
C2_Witness ==
  /\ connected
  /\ ret.op = "clear_pattern"
  /\ ret.fail
  /\ ret.rt = 2
  /\ ret.val = PyInt(0)

\* a get on a connected cache whose store call went through
CleanGet == connected /\ ret.op = "get" /\ ~ret.fail

\* C4 as stated: a get of a key under a promise returns the very value v
\* that was handed to set, and no get changes the store.
C4_GetReturnsValueSet ==
  /\ ret.op = "get" => ~ret.changed
  /\ (CleanGet /\ last[ret.key].st = "live") => ret.val = last[ret.key].v

\* C4, amended: after set(k, v, ttl) returned true, and until the next set
\* on k, a delete(k), a clear_pattern matching k, a clear_all or the expiry
\* of the ttl, get(k) returns the JSON round trip of v (v itself when v is
\* built of JSON-native types; a tuple comes back as a list); no get
\* changes the store.
C4_GetReturnsRoundTrip ==
  /\ ret.op = "get" => ~ret.changed
  /\ (CleanGet /\ last[ret.key].st = "live") =>
       ret.val = RoundTrip(last[ret.key].v)

\* a tuple was set and read back as a list
C4_Witness ==
  /\ CleanGet
  /\ last[ret.key].st = "live"
  /\ last[ret.key].v = PyTuple(<<1, 2>>)
  /\ ret.val = PyList(<<1, 2>>)

\* C5: a value set with a positive ttl is returned by get (as json reads it
\* back) at any time before ttl seconds have passed, and get returns none
\* at any time after, absent a new set on the key.
C5_TtlExpiry ==
  CleanGet =>
    /\ (last[ret.key].st = "live" /\ last[ret.key].exp # NoExpiry) =>
         ret.val = RoundTrip(last[ret.key].v)
    /\ last[ret.key].st = "expired" => ret.val = PyNone

\* a get after the ttl of the key has elapsed
C5_Witness ==
  /\ CleanGet
  /\ last[ret.key].st = "expired"
  /\ ret.val = PyNone

\* a get before the ttl of a key holding 7 has elapsed
C5_WitnessBefore ==
  /\ CleanGet
  /\ last[ret.key].st = "live"
  /\ last[ret.key].exp > now
  /\ ret.val = PyInt(7)

----------------------------------------------------------------------------
(* A function memoized with cache_result and its callers (SpecMemo). A    *)
(* call is the self.get, then on a miss func and the self.set; other       *)
(* callers and the clock may step in between.                              *)

MemoPrefix == <<"a">>

\* the calls f(1) and f(b=1) of the memoized function
MemoCalls ==
  { [args |-> <<PyInt(1)>>, kwargs |-> <<>>],
    [args |-> <<>>, kwargs |-> << <<<<"b">>, PyInt(1)>> >>] }

MemoKeys == { _generate_key(MemoPrefix, c.args, c.kwargs) : c \in MemoCalls }

\* the ttl the decorator was given
MemoTtls == { PyInt(n) : n \in 1..MaxTtl }

\* values the memoized function returns
FuncResults == { PyNone, PyInt(0), PyInt(7), PyTuple(<<1, 2>>) }

\* the record of a call of the wrapper: m is what was seen when its get
\* was made (the key, whether the store call of get was made to raise, the
\* promise on the key and whether the store held it), result what func
\* returned (None when it was not called), fs whether the store call of set
\* was made to raise
WrapCall(m, o, result, fs) ==
  [op |-> "wrapper", key |-> m.key, val |-> o.val, raised |-> o.raised,
   rt |-> o.rt, changed |-> (o.st # store), fail |-> (m.fg /\ fs),
   anyfail |-> (m.fg \/ fs), invoked |-> o.invoked, result |-> result,
   pre |-> m.pre, present |-> m.present, written |-> redis_get(o.st, m.key)]

\* a caller calls the memoized function: the wrapper up to its get; fg makes
\* the store call of get raise. On a hit the wrapper returns here, its get
\* being the one store call it made
CallWrapper ==
  /\ BagCardinality(racers.calls) < NumCallers
  /\ \E c \in MemoCalls, ttl \in MemoTtls, fg \in BOOLEAN :
       LET key == _generate_key(MemoPrefix, c.args, c.kwargs)
           g == wrapper_get(MemoPrefix, c.args, c.kwargs, fg)
           m == [key |-> key, ttl |-> ttl, fg |-> fg, rt |-> g.rt,
                 pre |-> last[key], present |-> (key \in DOMAIN store)]
       IN  /\ IF g.miss
              THEN /\ racers' = Enter(m)
                   /\ ret' = [op |-> "miss"]
              ELSE /\ racers' = racers
                   /\ ret' = [WrapCall(m, g.out, PyNone, FALSE)
                                EXCEPT !.fail = fg]
           /\ UNCHANGED <<connected, store, now, last, kg, rl,
                          sync_records, clock>>

\* a call in progress (racers.calls holds what each saw at its get) goes on
\* after its miss: func returns r and the wrapper sets it; fs makes the
\* store call of set raise
WrapperSet ==
  \E m \in BagToSet(racers.calls), r \in FuncResults, fs \in BOOLEAN :
    LET o == wrapper_set(m.key, m.ttl, r, m.rt, fs)
    IN  /\ store' = o.st
        /\ ret' = WrapCall(m, o, r, fs)
        /\ last' = IF o.stored
                   THEN [last EXCEPT ![m.key] = AfterSet(r, m.ttl)]
                   ELSE last
        /\ racers' = Leave(m)
        /\ UNCHANGED <<connected, now, kg, rl, sync_records, clock>>

InitMemo ==
  /\ connected \in BOOLEAN
  /\ store = EmptyStore
  /\ now = 0
  /\ sync_records = <<>>
  /\ clock = 0
  /\ ret = NoCall
  /\ last = [k \in MemoKeys |-> Unset]
  /\ kg = NoKey
  /\ rl = <<>>
  /\ racers = NoCalls

NextMemo ==
  \/ CallWrapper
  \/ WrapperSet
  \/ Tick

SpecMemo == InitMemo /\ [][NextMemo]_vars

\* C8 as stated: with the store connected and no store call failing, a call
\* on a miss invokes the computation once, stores its result under the
\* derived key and returns it; a call made while an earlier result for the
\* same arguments is within its ttl is a hit: it returns the stored result
\* and does not invoke the computation, whatever the result is.
C8_MemoHitForEveryResult ==
  (ret.op = "wrapper" /\ connected /\ ~ret.anyfail) =>
    /\ ~ret.present =>
         /\ ret.invoked = 1
         /\ ret.val = ret.result
         /\ ret.written = json_dumps(ret.result)
    /\ ret.pre.st = "live" =>
         /\ ret.invoked = 0
         /\ ret.val = RoundTrip(ret.pre.v)

\* C9: when the cache is disabled, or every store call of the call fails,
\* a call of the memoized function invokes the computation exactly once and
\* returns that result, and does not raise.
C9_MemoWithoutStore ==
  (ret.op = "wrapper" /\ (~connected \/ ret.fail)) =>
    /\ ~ret.raised
    /\ ret.invoked = 1
    /\ ret.val = ret.result

\* both store calls failed while the store held a live result for the call,
\* and the computation returned another value
C9_Witness ==
  /\ connected
  /\ ret.op = "wrapper"
  /\ ret.fail
  /\ ret.pre.st = "live"
  /\ ret.pre.v = PyInt(7)
  /\ ret.result = PyInt(0)
  /\ ret.val = PyInt(0)

----------------------------------------------------------------------------
(* Calls of _generate_key (SpecKey) *)

KeyInputs ==
  { [called |-> FALSE, prefix |-> p, args |-> a, kwargs |-> kw] :
      p \in KeyPrefixes, a \in KeyArgLists,
      kw \in {k \in KwLists : DistinctNames(k)} }

GenerateKey ==
  /\ ~kg.called
  /\ kg' = [called |-> TRUE, prefix |-> kg.prefix, args |-> kg.args,
            kwargs |-> kg.kwargs,
            key |-> _generate_key(kg.prefix, kg.args, kg.kwargs)]
  /\ UNCHANGED <<connected, store, now, ret, last, rl, racers,
                 sync_records, clock>>

InitKey ==
  /\ kg \in KeyInputs
  /\ connected = TRUE
  /\ store = EmptyStore
  /\ now = 0
  /\ sync_records = <<>>
  /\ clock = 0
  /\ ret = NoCall
  /\ last = <<>>
  /\ rl = <<>>
  /\ racers = NoRacers

NextKey == GenerateKey

SpecKey == InitKey /\ [][NextKey]_vars

\* C6: the key is a function of the prefix, the positional arguments and
\* the set of keyword arguments: supplying the same keyword arguments in
\* any other order yields the key that was returned, for short keys and for
\* keys in the hashed form.
C6_KeyIgnoresKwargOrder ==
  kg.called =>
    \A kw \in Reorderings(kg.kwargs) :
      _generate_key(kg.prefix, kg.args, kw) = kg.key

\* a key in the hashed form, made from three keyword arguments supplied in
\* an order that is not the sorted one
C6_Witness ==
  /\ kg.called
  /\ Len(kg.kwargs) = 3
  /\ kg.kwargs # sorted_items(kg.kwargs)
  /\ Len(composed_key(kg.prefix, kg.args, kg.kwargs)) > KEY_LIMIT
  /\ Len(kg.key) = Len(kg.prefix) + 1 + DIGEST_LEN

\* a short key made from keyword arguments supplied in an order that is not
\* the sorted one
C6_WitnessShort ==
  /\ kg.called
  /\ Len(kg.kwargs) >= 2
  /\ kg.kwargs # sorted_items(kg.kwargs)
  /\ kg.key = composed_key(kg.prefix, kg.args, kg.kwargs)

\* C7: every key _generate_key returns is at most 256 characters long.
C7_KeyLengthBounded == kg.called => Len(kg.key) <= KEY_LIMIT

----------------------------------------------------------------------------
(* RateLimiter *)

\* f"ratelimit:{identifier}"
ratelimit_key(identifier) ==
  <<"r", "a", "t", "e", "l", "i", "m", "i", "t", ":">> \o identifier

\* int(current) accepts the text of an integer only
int_parses(doc) == doc.j = "number"

\* where is_allowed stands after its GET (line 214): next is "set" when the
\* GET returned None and cache.set comes next (line 217), "incr" when the
\* count read is below max_requests and the INCR comes next (line 224), and
\* "done" when the call ends here with out
AllowStep(next, out) == [next |-> next, out |-> out]

\* a faulty variant of is_allowed_get: a request that is denied is counted
is_allowed_get_counts_denied(identifier, max_requests, failing) ==
  IF ~connected THEN AllowStep("done", Out(PyBool(TRUE), store, 0))
  ELSE IF failing THEN AllowStep("done", Raised(store, 1))
  ELSE LET key == ratelimit_key(identifier)
           current == redis_get(store, key)
       IN  IF current = Nil THEN AllowStep("set", Out(PyNone, store, 1))
           ELSE IF ~int_parses(current)
           THEN AllowStep("done", Raised(store, 1))
           ELSE IF current.n >= max_requests
           THEN AllowStep("done",
                          Out(PyBool(FALSE), redis_incr(store, key), 2))
           ELSE AllowStep("incr", Out(PyNone, store, 1))

\* a faulty variant of is_allowed_get: the count is compared with > instead
\* of >=
is_allowed_get_gt(identifier, max_requests, failing) ==
  IF ~connected THEN AllowStep("done", Out(PyBool(TRUE), store, 0))
  ELSE IF failing THEN AllowStep("done", Raised(store, 1))
  ELSE LET key == ratelimit_key(identifier)
           current == redis_get(store, key)
       IN  IF current = Nil THEN AllowStep("set", Out(PyNone, store, 1))
           ELSE IF ~int_parses(current)
           THEN AllowStep("done", Raised(store, 1))
           ELSE IF current.n > max_requests
           THEN AllowStep("done", Out(PyBool(FALSE), store, 1))
           ELSE AllowStep("incr", Out(PyNone, store, 1))

\* is_allowed up to and including its GET; failing: the GET raises. The GET
\* is issued on redis_client directly, outside any try
is_allowed_get(identifier, max_requests, failing) ==
  IF ~connected THEN AllowStep("done", Out(PyBool(TRUE), store, 0))
  ELSE IF failing THEN AllowStep("done", Raised(store, 1))
  ELSE LET key == ratelimit_key(identifier)
           current == redis_get(store, key)
       IN  IF current = Nil THEN AllowStep("set", Out(PyNone, store, 1))
           ELSE IF ~int_parses(current)
           THEN AllowStep("done", Raised(store, 1))
           ELSE IF current.n >= max_requests
           THEN AllowStep("done", Out(PyBool(FALSE), store, 1))
           ELSE AllowStep("incr", Out(PyNone, store, 1))

\* the second round trip of is_allowed, on the store as it is by then: the
\* SETEX inside cache.set, which catches its own exception, or the INCR,
\* issued on redis_client directly; failing: it raises
is_allowed_write(next, identifier, window, failing) ==
  LET key == ratelimit_key(identifier)
  IN  IF next = "set"
      THEN LET w == set(key, PyInt(1), PyInt(window), failing)
           IN  IF w.raised THEN Raised(w.st, 1 + w.rt)
               ELSE Out(PyBool(TRUE), w.st, 1 + w.rt)
      ELSE IF failing THEN Raised(store, 2)
      ELSE Out(PyBool(TRUE), redis_incr(store, key), 2)

\* a faulty variant of get_remaining: the disabled cache reports no
\* remaining request
get_remaining_closed(identifier, max_requests, failing) ==
  IF ~connected THEN Out(PyInt(0), store, 0)
  ELSE IF failing THEN Raised(store, 1)
  ELSE LET key == ratelimit_key(identifier)
           current == redis_get(store, key)
       IN  IF current = Nil THEN Out(PyInt(max_requests), store, 1)
           ELSE IF ~int_parses(current) THEN Raised(store, 1)
           ELSE Out(PyInt(IF max_requests - current.n > 0
                          THEN max_requests - current.n ELSE 0), store, 1)

\* a faulty variant of get_remaining: the request that created or raised
\* the counter last is not counted
get_remaining_before(identifier, max_requests, failing) ==
  IF ~connected THEN Out(PyInt(max_requests), store, 0)
  ELSE IF failing THEN Raised(store, 1)
  ELSE LET key == ratelimit_key(identifier)
           current == redis_get(store, key)
       IN  IF current = Nil THEN Out(PyInt(max_requests), store, 1)
           ELSE IF ~int_parses(current) THEN Raised(store, 1)
           ELSE Out(PyInt(IF max_requests - current.n + 1 > 0
                          THEN max_requests - current.n + 1 ELSE 0), store, 1)

\* max(0, max_requests - int(current))
get_remaining(identifier, max_requests, failing) ==
  IF ~connected THEN Out(PyInt(max_requests), store, 0)
  ELSE IF failing THEN Raised(store, 1)
  ELSE LET key == ratelimit_key(identifier)
           current == redis_get(store, key)
       IN  IF current = Nil THEN Out(PyInt(max_requests), store, 1)
           ELSE IF ~int_parses(current) THEN Raised(store, 1)
           ELSE Out(PyInt(IF max_requests - current.n > 0
                          THEN max_requests - current.n ELSE 0), store, 1)

----------------------------------------------------------------------------
(* The rate limiter called one call at a time (SpecRL). The clock may    *)
(* step between the two round trips of an is_allowed call.                 *)

Identifiers == { <<"u">> }

\* max_requests arguments: 0 and 1..MaxRequests
MaxRequestsInputs == 0..MaxRequests

\* window arguments: 0 and 1..MaxTtl
WindowInputs == 0..MaxTtl

\* is_allowed calls followed per window
CallsCap == MaxRequests + 2

\* rl[id]: the run of is_allowed calls on id since id had no counter, all
\* with the same max_requests and window (>= 1) and none with a failing
\* store call: n calls so far, the window ending at time exp. "void" when
\* the calls on id are no such run.
Idle == [st |-> "idle"]
Void == [st |-> "void"]

AfterIsAllowed(id, max_requests, window, failed) ==
  LET r == rl[id]
  IN  IF ~connected \/ failed \/ window < 1 THEN Void
      ELSE IF r.st = "idle"
      THEN IF ratelimit_key(id) \in DOMAIN store THEN Void
           ELSE [st |-> "run", n |-> 1, max |-> max_requests,
                 window |-> window, exp |-> now + window]
      ELSE IF r.st = "run" /\ r.max = max_requests /\ r.window = window
      THEN [r EXCEPT !.n = @ + 1]
      ELSE Void

\* the record of an is_allowed call
AllowCall(id, m, o, fail) ==
  [op |-> "is_allowed", id |-> id, max |-> m, val |-> o.val,
   raised |-> o.raised, rt |-> o.rt, changed |-> (o.st # store),
   fail |-> fail]

\* is_allowed(id, m, w) is called: the call up to its GET; f makes the GET
\* raise. The call ends here unless a second round trip comes next; then
\* racers.calls holds it
CallIsAllowed ==
  /\ racers.calls = EmptyBag
  /\ \E id \in Identifiers, m \in MaxRequestsInputs, w \in WindowInputs,
        f \in BOOLEAN :
       LET g == is_allowed_get(id, m, f)
       IN  /\ rl[id].st = "run" => rl[id].n < CallsCap
           /\ store' = g.out.st
           /\ IF g.next = "done"
              THEN /\ racers' = racers
                   /\ ret' = AllowCall(id, m, g.out, f)
                   /\ rl' = [rl EXCEPT ![id] = AfterIsAllowed(id, m, w, f)]
              ELSE /\ racers' = Enter([id |-> id, max |-> m, window |-> w,
                                       next |-> g.next])
                   /\ ret' = [op |-> "read"]
                   /\ rl' = rl
           /\ UNCHANGED <<connected, now, last, kg, sync_records, clock>>

\* the second round trip of the is_allowed call in progress; f makes it
\* raise
IsAllowedWrite ==
  \E call \in BagToSet(racers.calls), f \in BOOLEAN :
    LET o == is_allowed_write(call.next, call.id, call.window, f)
    IN  /\ store' = o.st
        /\ ret' = AllowCall(call.id, call.max, o, f)
        /\ rl' = [rl EXCEPT ![call.id] =
                     AfterIsAllowed(call.id, call.max, call.window, f)]
        /\ racers' = Leave(call)
        /\ UNCHANGED <<connected, now, last, kg, sync_records, clock>>

CallGetRemaining ==
  /\ racers.calls = EmptyBag
  /\ \E id \in Identifiers, m \in MaxRequestsInputs, f \in BOOLEAN :
    LET o == get_remaining(id, m, f)
    IN  /\ store' = o.st
        /\ ret' = [op |-> "get_remaining", id |-> id, max |-> m,
                   val |-> o.val, raised |-> o.raised, rt |-> o.rt,
                   changed |-> (o.st # store), fail |-> f]
        /\ UNCHANGED <<connected, now, last, kg, rl, racers,
                       sync_records, clock>>

\* a second passes: a run ends when its window has elapsed, and calls that
\* were no run are forgotten once the counter is gone
TickRL ==
  /\ now < MaxTime
  /\ now' = now + 1
  /\ store' = Expire(store, now + 1)
  /\ ret' = [op |-> "tick"]
  /\ rl' = [id \in Identifiers |->
              IF rl[id].st = "run" /\ rl[id].exp <= now + 1 THEN Idle
              ELSE IF rl[id].st = "void"
                      /\ ratelimit_key(id) \notin DOMAIN Expire(store, now + 1)
              THEN Idle
              ELSE rl[id]]
  /\ UNCHANGED <<connected, last, kg, racers,
                 sync_records, clock>>

InitRL ==
  /\ connected \in BOOLEAN
  /\ store = EmptyStore
  /\ now = 0
  /\ sync_records = <<>>
  /\ clock = 0
  /\ ret = NoCall
  /\ last = <<>>
  /\ kg = NoKey
  /\ rl = [id \in Identifiers |-> Idle]
  /\ racers = NoCalls

NextRL ==
  \/ CallIsAllowed
  \/ IsAllowedWrite
  \/ CallGetRemaining
  \/ TickRL

SpecRL == InitRL /\ [][NextRL]_vars

\* C3: is_allowed always returns a boolean and get_remaining always
\* returns an integer, and neither raises, also when a store call fails on
\* a connected cache.
C3_RateLimiterNeverRaises ==
  /\ ret.op = "is_allowed" => (~ret.raised /\ ret.val.t = "bool")
  /\ ret.op = "get_remaining" => (~ret.raised /\ ret.val.t = "int")

\* C10: in a run of is_allowed calls on an identifier that had no counter,
\* with the same max_requests >= 1 and window and before the window has
\* elapsed, the first max_requests calls return true and every further call
\* returns false.
C10_FirstMaxAllowedThenDenied ==
  (ret.op = "is_allowed" /\ rl[ret.id].st = "run" /\ rl[ret.id].max >= 1) =>
    ret.val = PyBool(rl[ret.id].n <= rl[ret.id].max)

\* max_requests = 3: the fourth call of the run was denied
C10_Witness ==
  /\ ret.op = "is_allowed"
  /\ rl[ret.id].st = "run"
  /\ rl[ret.id].max = 3
  /\ rl[ret.id].n = 4
  /\ ret.val = PyBool(FALSE)

\* max_requests = 3: the third call of the run was allowed
C10_WitnessAllowed ==
  /\ ret.op = "is_allowed"
  /\ rl[ret.id].st = "run"
  /\ rl[ret.id].max = 3
  /\ rl[ret.id].n = 3
  /\ ret.val = PyBool(TRUE)

\* the reading get_remaining(id, 3) follows the n-th call of a run of
\* is_allowed(id, 3, window) calls on an identifier that had no counter
ReadingAfter(n) ==
  /\ ret.op = "get_remaining"
  /\ ~ret.raised
  /\ ret.max = 3
  /\ rl[ret.id].st = "run"
  /\ rl[ret.id].max = 3
  /\ rl[ret.id].n = n

\* C11 as stated: with max_requests = 3 and an identifier with no counter,
\* get_remaining(id, 3) reports 3, 2, 1 and 0 after the 1st, 2nd, 3rd and
\* 4th is_allowed call.
C11_RemainingThreeTwoOneZero ==
  \A n \in 1..4 : ReadingAfter(n) => ret.val = PyInt(4 - n)

\* C11: with max_requests = 3 and an identifier with no counter,
\* get_remaining(id, 3) reports 2, 1, 0 and 0 after the 1st, 2nd, 3rd and
\* 4th is_allowed call: max(0, 3 - count), the first call having stored 1.
C11_RemainingTwoOneZeroZero ==
  /\ \A n \in 1..4 :
       ReadingAfter(n) => ret.val = PyInt(IF n <= 3 THEN 3 - n ELSE 0)
  /\ ( /\ ret.op = "get_remaining" /\ ~ret.raised /\ ret.max = 3
       /\ rl[ret.id].st = "idle"
       /\ ratelimit_key(ret.id) \notin DOMAIN store ) => ret.val = PyInt(3)

\* the reading after the first call is 2
C11_Witness == ReadingAfter(1) /\ ret.val = PyInt(2)

\* the reading after the fourth (denied) call is 0
C11_WitnessFourth == ReadingAfter(4) /\ ret.val = PyInt(0)

\* C12: on a disabled cache is_allowed returns true for every identifier,
\* max_requests and window, and get_remaining returns max_requests, after
\* any prior calls, with no round trip to the store and no change of it.
C12_DisabledFailsOpen ==
  ~connected =>
    /\ ret.op = "is_allowed" =>
         (ret.val = PyBool(TRUE) /\ ~ret.raised /\ ret.rt = 0 /\ ~ret.changed)
    /\ ret.op = "get_remaining" =>
         (ret.val = PyInt(ret.max) /\ ~ret.raised /\ ret.rt = 0
          /\ ~ret.changed)

\* disabled: get_remaining(id, 3) returned 3 after is_allowed calls on id
C12_Witness ==
  /\ ~connected
  /\ ret.op = "get_remaining"
  /\ rl[ret.id].st = "void"
  /\ ret.max = 3
  /\ ret.val = PyInt(3)

\* disabled: is_allowed(id, 0, window) returned true
C12_WitnessAllowed ==
  /\ ~connected
  /\ ret.op = "is_allowed"
  /\ ret.max = 0
  /\ ret.val = PyBool(TRUE)

\* C14: while is_allowed calls on an identifier run one at a time with a
\* fixed max_requests >= 0, the stored count never exceeds max_requests,
\* and a call made once the count has reached max_requests is rejected and
\* leaves the store as it was.
C14_CountNeverExceedsMax ==
  /\ \A id \in Identifiers :
       (rl[id].st = "run" /\ ratelimit_key(id) \in DOMAIN store) =>
         store[ratelimit_key(id)].val.n <= rl[id].max
  /\ ( /\ ret.op = "is_allowed"
       /\ rl[ret.id].st = "run"
       /\ rl[ret.id].n >= 2
       /\ rl[ret.id].n > rl[ret.id].max ) =>
         (ret.val = PyBool(FALSE) /\ ~ret.changed)

----------------------------------------------------------------------------
(* Concurrent is_allowed calls on one identifier (SpecRace). Each store
   command is atomic; a call is the GET, then either the SETEX of cache.set
   or the INCR, and other callers and the clock may step in between. The
   store commands succeed. *)

RaceIdentifier == <<"u">>

RaceKey == ratelimit_key(RaceIdentifier)

\* window arguments of the concurrent calls: 1..MaxTtl
RaceWindows == 1..MaxTtl

\* racers.pc[c]: "idle" between calls, "set" when the GET returned None and
\* cache.set comes next, "incr" when the count read was below max_requests
\* and the INCR comes next. racers.admitted counts the calls that returned
\* true since the counter was last absent.
Step(c, step, done, val) ==
  [op |-> "is_allowed", caller |-> c, step |-> step, done |-> done,
   val |-> val]

\* current = self.cache.redis_client.get(key), and the branch taken on it
ReadCount(c) ==
  /\ racers.pc[c] = "idle"
  /\ LET current == redis_get(store, RaceKey)
     IN  IF current = Nil
         THEN /\ racers' = [racers EXCEPT !.pc[c] = "set"]
              /\ ret' = Step(c, "get", FALSE, PyNone)
         ELSE IF current.n >= racers.max
         THEN /\ racers' = racers
              /\ ret' = Step(c, "get", TRUE, PyBool(FALSE))
         ELSE /\ racers' = [racers EXCEPT !.pc[c] = "incr"]
              /\ ret' = Step(c, "get", FALSE, PyNone)
  /\ UNCHANGED <<connected, store, now, last, kg, rl,
                 sync_records, clock>>

\* self.cache.set(key, 1, window); return True
InitialSet(c) ==
  /\ racers.pc[c] = "set"
  /\ store' = set(RaceKey, PyInt(1), PyInt(racers.window), FALSE).st
  /\ racers' = [racers EXCEPT !.pc[c] = "idle", !.admitted = @ + 1]
  /\ ret' = Step(c, "set", TRUE, PyBool(TRUE))
  /\ UNCHANGED <<connected, now, last, kg, rl,
                 sync_records, clock>>

\* self.cache.redis_client.incr(key); return True
Increment(c) ==
  /\ racers.pc[c] = "incr"
  /\ store' = redis_incr(store, RaceKey)
  /\ racers' = [racers EXCEPT !.pc[c] = "idle", !.admitted = @ + 1]
  /\ ret' = Step(c, "incr", TRUE, PyBool(TRUE))
  /\ UNCHANGED <<connected, now, last, kg, rl,
                 sync_records, clock>>

\* a second passes; the admissions are counted anew when the counter goes
TickRace ==
  /\ now < MaxTime
  /\ now' = now + 1
  /\ store' = Expire(store, now + 1)
  /\ ret' = [op |-> "tick"]
  /\ racers' = IF RaceKey \in DOMAIN store
                  /\ RaceKey \notin DOMAIN Expire(store, now + 1)
               THEN [racers EXCEPT !.admitted = 0]
               ELSE racers
  /\ UNCHANGED <<connected, last, kg, rl,
                 sync_records, clock>>

InitRace ==
  /\ connected = TRUE
  /\ store = EmptyStore
  /\ now = 0
  /\ sync_records = <<>>
  /\ clock = 0
  /\ ret = NoCall
  /\ last = <<>>
  /\ kg = NoKey
  /\ rl = <<>>
  /\ \E m \in 1..MaxRequests, w \in RaceWindows :
       racers = [pc |-> [c \in Callers |-> "idle"], max |-> m, window |-> w,
                 admitted |-> 0]

NextRace ==
  \/ \E c \in Callers : ReadCount(c)
  \/ \E c \in Callers : InitialSet(c)
  \/ \E c \in Callers : Increment(c)
  \/ TickRace

SpecRace == InitRace /\ [][NextRace]_vars

\* C13: while an identifier's counter exists, no step of any is_allowed
\* call, under any interleaving of concurrent calls on the identifier,
\* lowers the stored count.
C13_CountNeverLowered ==
  [][(RaceKey \in DOMAIN store /\ RaceKey \in DOMAIN store') =>
       store'[RaceKey].val.n >= store[RaceKey].val.n]_vars

\* C15: with NumCallers concurrent callers of is_allowed on one identifier,
\* the calls admitted within one window exceed max_requests by at most
\* NumCallers - 1.
C15_OverAdmissionBounded ==
  racers.admitted <= racers.max + NumCallers - 1

\* C16: every existing ratelimit counter has a pending expiry, also when
\* the key expired between the read and the increment of an is_allowed
\* call.
C16_CounterAlwaysExpires ==
  RaceKey \in DOMAIN store => store[RaceKey].exp # NoExpiry

----------------------------------------------------------------------------
(* SessionManager *)

\* self.session_ttl: 7 days
session_ttl == 86400 * 7

\* a faulty variant of session_key: the user id is left out of the key
session_key_shared(user_id) ==
  <<"s", "e", "s", "s", "i", "o", "n", ":">>

\* f"session:{user_id}"
session_key(user_id) ==
  <<"s", "e", "s", "s", "i", "o", "n", ":">> \o user_id

\* the result of cache.set is dropped and the key is returned
create_session(user_id, data, failing) ==
  LET w == set(session_key(user_id), data, PyInt(session_ttl), failing)
  IN  Out(PyStr(session_key(user_id)), w.st, w.rt)

get_session(user_id, failing) == get(session_key(user_id), failing)

\* a faulty variant of update_session: the fields of the stored payload
\* that the new payload lacks are kept
update_session_merge(user_id, data, failing) ==
  LET old == get(session_key(user_id), FALSE).val
      merged == IF old.t = "dict" /\ data.t = "dict"
                THEN PyDict([k \in DOMAIN old.kv \cup DOMAIN data.kv |->
                               IF k \in DOMAIN data.kv THEN data.kv[k]
                               ELSE old.kv[k]])
                ELSE data
      c == create_session(user_id, merged, failing)
  IN  Out(PyBool(c.val # PyNone), c.st, c.rt)

\* return self.create_session(user_id, data) is not None
update_session(user_id, data, failing) ==
  LET c == create_session(user_id, data, failing)
  IN  Out(PyBool(c.val # PyNone), c.st, c.rt)

delete_session(user_id, failing) == delete(session_key(user_id), failing)

----------------------------------------------------------------------------
(* The sessions of two users over seven days (SpecSession) *)

\* user ids, one extending the other
Users == { <<"u">>, <<"u", "1">> }

\* session payloads: dicts of JSON values, and one holding a value json
\* cannot serialize
SessionPayloads ==
  { PyDict([k \in {"a", "b"} |-> IF k = "a" THEN PyInt(1) ELSE PyStr(<<"x">>)]),
    PyDict([k \in {"a"} |-> PyInt(7)]),
    PyDict([k \in {"a"} |-> PyObject]) }

\* the instants at which the sessions are looked at: the first seconds,
\* and the seconds around the end of the lifetime of a session created in
\* those
SessionInstants ==
  (0..MaxTime) \cup ((session_ttl - 1)..(session_ttl + MaxTime))

SessionCall(op, user, data, o, fail) ==
  [op |-> op, user |-> user, data |-> data, val |-> o.val,
   raised |-> o.raised, rt |-> o.rt, changed |-> (o.st # store),
   fail |-> fail, prev |-> redis_get(store, session_key(user))]

\* last[u] after a create or an update of u's session with payload d: a
\* payload that was written is promised for session_ttl seconds
AfterCreate(u, d, failing) ==
  IF connected /\ ~failing /\ json_serializable(d)
  THEN Promised(d, now + session_ttl)
  ELSE last[u]

CallCreateSession ==
  \E u \in Users, d \in SessionPayloads, f \in BOOLEAN :
    LET o == create_session(u, d, f)
    IN  /\ store' = o.st
        /\ ret' = SessionCall("create_session", u, d, o, f)
        /\ last' = [last EXCEPT ![u] = AfterCreate(u, d, f)]
        /\ UNCHANGED <<connected, now, kg, rl, racers,
                       sync_records, clock>>

CallGetSession ==
  \E u \in Users, f \in BOOLEAN :
    LET o == get_session(u, f)
    IN  /\ store' = o.st
        /\ ret' = SessionCall("get_session", u, PyNone, o, f)
        /\ UNCHANGED <<connected, now, last, kg, rl, racers,
                       sync_records, clock>>

CallUpdateSession ==
  \E u \in Users, d \in SessionPayloads, f \in BOOLEAN :
    LET o == update_session(u, d, f)
    IN  /\ store' = o.st
        /\ ret' = SessionCall("update_session", u, d, o, f)
        /\ last' = [last EXCEPT ![u] = AfterCreate(u, d, f)]
        /\ UNCHANGED <<connected, now, kg, rl, racers,
                       sync_records, clock>>

CallDeleteSession ==
  \E u \in Users, f \in BOOLEAN :
    LET o == delete_session(u, f)
    IN  /\ store' = o.st
        /\ ret' = SessionCall("delete_session", u, PyNone, o, f)
        /\ last' = [last EXCEPT ![u] = IF connected /\ ~f THEN Unset ELSE @]
        /\ UNCHANGED <<connected, now, kg, rl, racers,
                       sync_records, clock>>

\* time passes: the sessions whose ttl has elapsed are gone
TickSession ==
  \E t \in SessionInstants :
    /\ t > now
    /\ now' = t
    /\ store' = Expire(store, t)
    /\ ret' = [op |-> "tick"]
    /\ last' = [u \in Users |-> AfterTick(last[u], t)]
    /\ UNCHANGED <<connected, kg, rl, racers,
                   sync_records, clock>>

InitSession ==
  /\ connected \in BOOLEAN
  /\ store = EmptyStore
  /\ now = 0
  /\ sync_records = <<>>
  /\ clock = 0
  /\ ret = NoCall
  /\ last = [u \in Users |-> Unset]
  /\ kg = NoKey
  /\ rl = <<>>
  /\ racers = NoRacers

NextSession ==
  \/ CallCreateSession
  \/ CallGetSession
  \/ CallUpdateSession
  \/ CallDeleteSession
  \/ TickSession

SpecSession == InitSession /\ [][NextSession]_vars

\* C17: with the store connected, get_session(u) returns the payload d of
\* the latest create_session(u, d) until 604800 seconds have passed since
\* it, and none after delete_session(u); the session of u is the store
\* entry session:<u>, and calls for other user ids leave it alone.
C17_SessionLifecycle ==
  /\ (connected /\ ret.op = "get_session" /\ ~ret.fail) =>
       ret.val = (IF last[ret.user].st = "live" THEN last[ret.user].v
                  ELSE PyNone)
  /\ \A u \in Users :
       IF last[u].st = "live"
       THEN /\ session_key(u) \in DOMAIN store
            /\ store[session_key(u)].exp = last[u].exp
            /\ now < last[u].exp
       ELSE session_key(u) \notin DOMAIN store
  /\ DOMAIN store \subseteq { session_key(u) : u \in Users }

\* one second before the 604800 are over get_session(u) returned the
\* payload created at time 0, while the other user has another payload
C17_Witness ==
  /\ ret.op = "get_session"
  /\ ~ret.fail
  /\ now = session_ttl - 1
  /\ last[ret.user] = Promised(ret.val, session_ttl)
  /\ \E v \in Users : v # ret.user /\ last[v].st = "live" /\ last[v].v # ret.val

\* after delete_session(u) get_session(u) returned none, the other user's
\* session being live
C17_WitnessDeleted ==
  /\ connected
  /\ ret.op = "get_session"
  /\ ~ret.fail
  /\ last[ret.user] = Unset
  /\ ret.val = PyNone
  /\ \E v \in Users : v # ret.user /\ last[v].st = "live"

\* C18: after update_session(u, d2) the session of u is exactly d2, with
\* nothing of the payload stored before, and its ttl is the full 7 days
\* again; a user without a session gets one.
C18_UpdateReplacesWholesale ==
  ( /\ connected
    /\ ret.op = "update_session"
    /\ ~ret.fail
    /\ json_serializable(ret.data) ) =>
      /\ session_key(ret.user) \in DOMAIN store
      /\ store[session_key(ret.user)].exp = now + session_ttl
      /\ get_session(ret.user, FALSE).val = ret.data

\* a session with fields a and b, created earlier, was updated to one with
\* field a only
C18_Witness ==
  /\ connected
  /\ ret.op = "update_session"
  /\ ~ret.fail
  /\ now > 0
  /\ ret.prev # Nil
  /\ ret.prev.j = "object"
  /\ DOMAIN ret.prev.kv = {"a", "b"}
  /\ DOMAIN ret.data.kv = {"a"}
  /\ json_serializable(ret.data)

\* update_session for a user without a session
C18_WitnessCreates ==
  /\ connected
  /\ ret.op = "update_session"
  /\ ~ret.fail
  /\ ret.prev = Nil
  /\ json_serializable(ret.data)
  /\ session_key(ret.user) \in DOMAIN store

----------------------------------------------------------------------------
(* MemoryCache *)

search_ttl == 3600
memory_ttl == 86400
stats_ttl == 300

\* self.cache._generate_key("search", user_id, query)
search_key(query, user_id) ==
  _generate_key(SearchPrefix, <<PyStr(user_id), PyStr(query)>>, <<>>)

cache_search(query, results, user_id, failing) ==
  set(search_key(query, user_id), results, PyInt(search_ttl), failing)

get_cached_search(query, user_id, failing) ==
  get(search_key(query, user_id), failing)

\* the user_id "*" of the default
AnyUser == <<"*">>

\* f"search:{user_id}:*" if user_id != "*" else "search:*"
searches_pattern(user_id) ==
  IF user_id # AnyUser THEN SearchPrefix \o <<":">> \o user_id \o <<":", "*">>
  ELSE SearchPrefix \o <<":", "*">>

\* invalidate_searches up to the KEYS of its clear_pattern
invalidate_searches_keys(user_id, failing) ==
  clear_pattern_keys(searches_pattern(user_id), failing)

\* f"memory:{memory_id}"
memory_key(memory_id) == <<"m", "e", "m", "o", "r", "y", ":">> \o memory_id

cache_memory(memory_id, memory_data, failing) ==
  set(memory_key(memory_id), memory_data, PyInt(memory_ttl), failing)

invalidate_memory(memory_id, failing) == delete(memory_key(memory_id), failing)

\* f"stats:{stats_key}"
stats_entry_key(stats_key) == <<"s", "t", "a", "t", "s", ":">> \o stats_key

cache_stats(stats_key, stats_data, failing) ==
  set(stats_entry_key(stats_key), stats_data, PyInt(stats_ttl), failing)

\* f"stats:{stats_key}" if stats_key != "*" else "stats:*"
stats_pattern(stats_key) ==
  IF stats_key # <<"*">> THEN stats_entry_key(stats_key)
  ELSE stats_entry_key(<<"*">>)

\* invalidate_stats up to the KEYS of its clear_pattern
invalidate_stats_keys(stats_key, failing) ==
  clear_pattern_keys(stats_pattern(stats_key), failing)

----------------------------------------------------------------------------
(* The searches, memories and statistics of two users (SpecSearch) *)

\* a short query, and LongQuery, which takes the key past the threshold
ShortQuery == <<"q">>
Queries == { ShortQuery, LongQuery }

SearchResults == { PyList(<<1, 2>>) }

MemoryIds == { <<"m">> }
StatsKeys == { <<"k">> }
MemoryData == PyDict([k \in {"a"} |-> PyInt(1)])

\* the instants at which the entries are looked at: the start, and the end
\* of the lifetime of a search cached then
SearchInstants == {0, search_ttl}

MemCall(op, user, query, key, o, fail) ==
  [op |-> op, user |-> user, long |-> (query = LongQuery), key |-> key,
   val |-> o.val, rt |-> o.rt, changed |-> (o.st # store), fail |-> fail]

CallCacheSearch ==
  \E q \in Queries, r \in SearchResults, u \in SearchUsers, f \in {FALSE} :
    LET o == cache_search(q, r, u, f)
    IN  /\ store' = o.st
        /\ ret' = MemCall("cache_search", u, q, search_key(q, u), o, f)
        /\ UNCHANGED <<connected, now, last, kg, rl, racers,
                       sync_records, clock>>

CallGetCachedSearch ==
  \E q \in Queries, u \in SearchUsers, f \in {FALSE} :
    LET o == get_cached_search(q, u, f)
    IN  /\ store' = o.st
        /\ ret' = MemCall("get_cached_search", u, q, search_key(q, u), o, f)
        /\ UNCHANGED <<connected, now, last, kg, rl, racers,
                       sync_records, clock>>

\* a call of invalidate_searches or invalidate_stats that is between the
\* KEYS and the DEL of its clear_pattern
Invalidation(op, user, pattern, keys) ==
  [op |-> op, user |-> user, pattern |-> pattern, keys |-> keys]

\* a caller calls invalidate_searches(u): the call up to its KEYS. It
\* returns here unless the KEYS found keys
CallInvalidateSearches ==
  /\ BagCardinality(racers.calls) < NumCallers
  /\ \E u \in SearchUsers \cup {AnyUser}, f \in BOOLEAN :
       LET k == invalidate_searches_keys(u, f)
       IN  /\ IF k.pending
              THEN /\ racers' = Enter(Invalidation("invalidate_searches", u,
                                                   searches_pattern(u),
                                                   k.keys))
                   /\ ret' = [op |-> "keys"]
              ELSE /\ racers' = racers
                   /\ ret' = MemCall("invalidate_searches", u, ShortQuery,
                                     searches_pattern(u), k.out, f)
           /\ UNCHANGED <<connected, store, now, last, kg, rl,
                          sync_records, clock>>

\* the DEL of an invalidation in progress; other calls and the passing of
\* time may have come between its KEYS and this
InvalidateDel ==
  \E call \in BagToSet(racers.calls), f \in BOOLEAN :
    LET o == clear_pattern_del(call.keys, f)
    IN  /\ store' = o.st
        /\ ret' = MemCall(call.op, call.user, ShortQuery, call.pattern, o, f)
        /\ racers' = Leave(call)
        /\ UNCHANGED <<connected, now, last, kg, rl, sync_records, clock>>

CallCacheMemory ==
  \E i \in MemoryIds, f \in {FALSE} :
    LET o == cache_memory(i, MemoryData, f)
    IN  /\ store' = o.st
        /\ ret' = MemCall("cache_memory", i, ShortQuery, memory_key(i), o, f)
        /\ UNCHANGED <<connected, now, last, kg, rl, racers,
                       sync_records, clock>>

CallInvalidateMemory ==
  \E i \in MemoryIds, f \in {FALSE} :
    LET o == invalidate_memory(i, f)
    IN  /\ store' = o.st
        /\ ret' = MemCall("invalidate_memory", i, ShortQuery, memory_key(i),
                          o, f)
        /\ UNCHANGED <<connected, now, last, kg, rl, racers,
                       sync_records, clock>>

CallCacheStats ==
  \E k \in StatsKeys, f \in {FALSE} :
    LET o == cache_stats(k, MemoryData, f)
    IN  /\ store' = o.st
        /\ ret' = MemCall("cache_stats", k, ShortQuery, stats_entry_key(k),
                          o, f)
        /\ UNCHANGED <<connected, now, last, kg, rl, racers,
                       sync_records, clock>>

\* a caller calls invalidate_stats(k): the call up to its KEYS
CallInvalidateStats ==
  /\ BagCardinality(racers.calls) < NumCallers
  /\ \E s \in StatsKeys \cup { <<"*">> }, f \in {FALSE} :
       LET k == invalidate_stats_keys(s, f)
       IN  /\ IF k.pending
              THEN /\ racers' = Enter(Invalidation("invalidate_stats", s,
                                                   stats_pattern(s), k.keys))
                   /\ ret' = [op |-> "keys"]
              ELSE /\ racers' = racers
                   /\ ret' = MemCall("invalidate_stats", s, ShortQuery,
                                     stats_pattern(s), k.out, f)
           /\ UNCHANGED <<connected, store, now, last, kg, rl,
                          sync_records, clock>>

\* time passes: the entries whose ttl has elapsed are gone
TickSearch ==
  \E t \in SearchInstants :
    /\ t > now
    /\ now' = t
    /\ store' = Expire(store, t)
    /\ ret' = [op |-> "tick"]
    /\ UNCHANGED <<connected, last, kg, rl, racers,
                   sync_records, clock>>

InitSearch ==
  /\ connected \in BOOLEAN
  /\ store = EmptyStore
  /\ now = 0
  /\ sync_records = <<>>
  /\ clock = 0
  /\ ret = NoCall
  /\ last = <<>>
  /\ kg = NoKey
  /\ rl = <<>>
  /\ racers = NoCalls

NextSearch ==
  \/ CallCacheSearch
  \/ CallGetCachedSearch
  \/ CallInvalidateSearches
  \/ CallCacheMemory
  \/ CallInvalidateMemory
  \/ CallCacheStats
  \/ CallInvalidateStats
  \/ InvalidateDel
  \/ TickSearch

SpecSearch == InitSearch /\ [][NextSearch]_vars

\* s begins with p
IsPrefix(p, s) == Len(p) <= Len(s) /\ SubSeq(s, 1, Len(p)) = p

\* search:<user_id>:<query-or-hash> for some user id
IsSearchKey(k) ==
  /\ IsPrefix(SearchPrefix \o <<":">>, k)
  /\ \E i \in (Len(SearchPrefix) + 2)..Len(k) : k[i] = ":"

\* C19: every key the derived caches write has one of the forms
\* session:<user_id>, ratelimit:<identifier>, memory:<memory_id>,
\* search:<user_id>:<query-or-hash>, stats:<stats_key>, and the key of a
\* cached search begins with search:<user_id>: for every user id and query.
C19_KeyNamespaces ==
  /\ \A k \in DOMAIN store :
       \/ IsPrefix(session_key(<<>>), k)
       \/ IsPrefix(ratelimit_key(<<>>), k)
       \/ IsPrefix(memory_key(<<>>), k)
       \/ IsPrefix(stats_entry_key(<<>>), k)
       \/ IsSearchKey(k)
  /\ (ret.op = "cache_search" /\ ret.val = PyBool(TRUE)) =>
       IsPrefix(SearchPrefix \o <<":">> \o ret.user \o <<":">>, ret.key)

\* C20: with the store connected, right after invalidate_searches(u) for a
\* concrete user id get_cached_search(q, u) returns none for every query q,
\* whatever its length, and right after invalidate_searches("*") it returns
\* none for every user and query.
C20_InvalidateSearchesClears ==
  (connected /\ ret.op = "invalidate_searches" /\ ~ret.fail) =>
    \A u \in SearchUsers, q \in Queries :
      (ret.user = AnyUser \/ ret.user = u) =>
        get_cached_search(q, u, FALSE).val = PyNone

----------------------------------------------------------------------------
(* TimeSyncManager. A datetime is the number of microseconds since the
   start of the observation; sync_records is the dict as the sequence of its
   values in insertion order. *)

\* a naive datetime
PyDatetime(us) == [t |-> "datetime", us |-> us]

\* ServiceStatus
ACTIVE == "active"
STALE == "stale"
DISCONNECTED == "disconnected"

\* TimeSyncManager(): stale_threshold_ms
stale_threshold_ms == 60000

\* microseconds in a millisecond
MicrosPerMs == 1000

\* datetime.fromtimestamp(0), long before the observation starts
Epoch == -1000000000

SyncRecord(service, last_sync, last_memory_update, status) ==
  [service |-> service, last_sync |-> last_sync,
   last_memory_update |-> last_memory_update, status |-> status]

\* service in self.sync_records
Registered(recs, service) ==
  \E i \in 1..Len(recs) : recs[i].service = service

IndexOf(recs, service) ==
  CHOOSE i \in 1..Len(recs) : recs[i].service = service

\* self.sync_records.get(service)
NoRecord == [service |-> "None"]
RecordOf(recs, service) ==
  IF Registered(recs, service) THEN recs[IndexOf(recs, service)]
  ELSE NoRecord

\* a faulty variant of register_service: a known name keeps the
\* last_memory_update it had
register_service_keep(recs, service, t) ==
  IF Registered(recs, service)
  THEN [recs EXCEPT ![IndexOf(recs, service)] =
          SyncRecord(service, t, @.last_memory_update, ACTIVE)]
  ELSE Append(recs, SyncRecord(service, t, t, ACTIVE))

\* self.sync_records[service] = SyncRecord(...): a known name keeps its
\* place in the dict, a new one goes last. t is the clock as read inside.
register_service(recs, service, t) ==
  IF Registered(recs, service)
  THEN [recs EXCEPT ![IndexOf(recs, service)] =
          SyncRecord(service, t, t, ACTIVE)]
  ELSE Append(recs, SyncRecord(service, t, t, ACTIVE))

\* a faulty variant of update_sync: a memory update moves last_memory_update
\* and leaves last_sync where it was
update_sync_memory_only(recs, service, is_memory_update, t, t2) ==
  [val |-> t,
   recs |-> IF Registered(recs, service)
            THEN LET i == IndexOf(recs, service)
                 IN  [recs EXCEPT ![i] =
                        IF is_memory_update
                        THEN SyncRecord(service, @.last_sync, t, ACTIVE)
                        ELSE SyncRecord(service, t, @.last_memory_update,
                                        ACTIVE)]
            ELSE register_service(recs, service, t2)]

\* a faulty variant of update_sync: a known record keeps its status
update_sync_keeps_status(recs, service, is_memory_update, t, t2) ==
  [val |-> t,
   recs |-> IF Registered(recs, service)
            THEN LET i == IndexOf(recs, service)
                 IN  [recs EXCEPT ![i] =
                        SyncRecord(service, t,
                                   IF is_memory_update THEN t
                                   ELSE @.last_memory_update,
                                   @.status)]
            ELSE register_service(recs, service, t2)]

\* a faulty variant of update_sync: every sync counts as a memory update
update_sync_always_memory(recs, service, is_memory_update, t, t2) ==
  [val |-> t,
   recs |-> IF Registered(recs, service)
            THEN [recs EXCEPT ![IndexOf(recs, service)] =
                    SyncRecord(service, t, t, ACTIVE)]
            ELSE register_service(recs, service, t2)]

\* t is the clock as update_sync reads it, t2 the clock as register_service
\* reads it when the service is unknown
update_sync(recs, service, is_memory_update, t, t2) ==
  [val |-> t,
   recs |-> IF Registered(recs, service)
            THEN [recs EXCEPT ![IndexOf(recs, service)] =
                    SyncRecord(service, t,
                               IF is_memory_update THEN t
                               ELSE @.last_memory_update,
                               ACTIVE)]
            ELSE register_service(recs, service, t2)]

\* a faulty variant of is_stale_at: a record is stale from the threshold on
is_stale_at_ge(record, t) ==
  t - record.last_sync >= stale_threshold_ms * MicrosPerMs

\* diff_ms > self.stale_threshold_ms, diff_ms being the float
\* (now - record.last_sync).total_seconds() * 1000
is_stale_at(record, t) ==
  t - record.last_sync > stale_threshold_ms * MicrosPerMs

\* a faulty variant of check_stale: it reports whether it changed the status
check_stale_reports_flip(recs, service, t) ==
  IF ~Registered(recs, service) THEN [val |-> TRUE, recs |-> recs]
  ELSE LET i == IndexOf(recs, service)
           flips == is_stale_at(recs[i], t) /\ recs[i].status = ACTIVE
       IN  [val |-> flips,
            recs |-> IF flips THEN [recs EXCEPT ![i].status = STALE]
                     ELSE recs]

\* a faulty variant of check_stale: a record found stale again is marked
\* disconnected
check_stale_escalates(recs, service, t) ==
  IF ~Registered(recs, service) THEN [val |-> TRUE, recs |-> recs]
  ELSE LET i == IndexOf(recs, service)
           is_stale == is_stale_at(recs[i], t)
       IN  [val |-> is_stale,
            recs |-> IF is_stale
                     THEN [recs EXCEPT ![i].status =
                             IF @ = ACTIVE THEN STALE ELSE DISCONNECTED]
                     ELSE recs]

check_stale(recs, service, t) ==
  IF ~Registered(recs, service) THEN [val |-> TRUE, recs |-> recs]
  ELSE LET i == IndexOf(recs, service)
           is_stale == is_stale_at(recs[i], t)
       IN  [val |-> is_stale,
            recs |-> IF is_stale /\ recs[i].status = ACTIVE
                     THEN [recs EXCEPT ![i].status = STALE]
                     ELSE recs]

get_service_status(recs, service) == RecordOf(recs, service)

get_all_statuses(recs) == recs

\* the differences, among those compared here, whose float product
\* total_seconds() * 1000 falls just below the whole number of milliseconds
\* (1.001 * 1000 is 1000.9999999999999)
FloatShort == {1001000}

Abs(n) == IF n < 0 THEN -n ELSE n

\* int(td.total_seconds() * 1000) for a timedelta of micros microseconds:
\* int() rounds toward zero
diff_ms_of(micros) ==
  LET whole == Abs(micros) \div MicrosPerMs
      ms == IF Abs(micros) \in FloatShort THEN whole - 1 ELSE whole
  IN  IF micros < 0 THEN -ms ELSE ms

\* aware: the client's datetime carries a timezone. The server's datetimes
\* (datetime.now(), datetime.fromtimestamp(0)) carry none, and Python
\* raises TypeError on the difference of an aware and a naive datetime.
compare_timestamps(recs, service, client_timestamp, aware) ==
  LET record == RecordOf(recs, service)
      server_timestamp == IF record # NoRecord THEN record.last_memory_update
                          ELSE Epoch
      diff_ms == diff_ms_of(client_timestamp - server_timestamp)
  IN  IF aware THEN [raised |-> TRUE]
      ELSE [raised |-> FALSE, service |-> service,
            client_timestamp |-> client_timestamp,
            server_timestamp |-> server_timestamp,
            is_client_newer |-> (diff_ms > 0), diff_ms |-> diff_ms,
            needs_sync |-> (Abs(diff_ms) > 1000)]

\* a faulty variant of get_latest_timestamp: the records are ranked by
\* last_sync
get_latest_by_last_sync(recs) ==
  IF recs = <<>> THEN [service |-> "None"]
  ELSE LET i == CHOOSE j \in 1..Len(recs) :
                  /\ \A k \in 1..Len(recs) :
                       recs[k].last_sync <= recs[j].last_sync
                  /\ \A k \in 1..(j - 1) :
                       recs[k].last_sync < recs[j].last_sync
       IN  [service |-> recs[i].service,
            timestamp |-> recs[i].last_memory_update]

\* max(self.sync_records.items(), key=...): the first of the records with
\* the greatest last_memory_update, in insertion order
NoLatest == [service |-> "None"]
get_latest_timestamp(recs) ==
  IF recs = <<>> THEN NoLatest
  ELSE LET i == CHOOSE j \in 1..Len(recs) :
                  /\ \A k \in 1..Len(recs) :
                       recs[k].last_memory_update <= recs[j].last_memory_update
                  /\ \A k \in 1..(j - 1) :
                       recs[k].last_memory_update < recs[j].last_memory_update
       IN  [service |-> recs[i].service,
            timestamp |-> recs[i].last_memory_update]

----------------------------------------------------------------------------
(* The tracker called one call at a time (SpecSync) *)

Services == {"a", "b"}

\* the clock is read up to this many microseconds past a watched instant
MaxDrift == 1

\* the instants at which the clock is read: the first microseconds, and
\* the microseconds from one and from two stale thresholds later on
Instants ==
  UNION { (k * stale_threshold_ms * MicrosPerMs)
            ..(k * stale_threshold_ms * MicrosPerMs + MaxDrift) :
          k \in {0, 1, 2} }

\* how far the client's timestamp is from the server's clock
ClientOffsets == {-1001000, -1000000, 0, 200000, 1000000, 1001000, 5000000}

\* the record of a call: before is the service's record when it began
SyncCall(op, service, flag, val) ==
  [op |-> op, service |-> service, flag |-> flag, val |-> val,
   before |-> RecordOf(sync_records, service)]

CallRegister ==
  \E s \in Services :
    /\ sync_records' = register_service(sync_records, s, clock)
    /\ ret' = SyncCall("register", s, FALSE, PyNone)
    /\ UNCHANGED <<connected, store, now, last, kg, rl, racers, clock>>

\* the clock may have moved on when register_service reads it again
CallUpdateSync ==
  \E s \in Services, is_memory_update \in BOOLEAN,
     t2 \in {t \in Instants : t >= clock} :
    LET o == update_sync(sync_records, s, is_memory_update, clock, t2)
    IN  /\ Registered(sync_records, s) => t2 = clock
        /\ sync_records' = o.recs
        /\ clock' = t2
        /\ ret' = SyncCall("update_sync", s, is_memory_update,
                            PyDatetime(o.val))
        /\ UNCHANGED <<connected, store, now, last, kg, rl, racers>>

\* the call before was update_sync on the stale record of this service
Revived(service) ==
  /\ ret.op = "update_sync"
  /\ ret.service = service
  /\ ret.before # NoRecord
  /\ ret.before.status = STALE

CallCheckStale ==
  \E s \in Services :
    LET o == check_stale(sync_records, s, clock)
    IN  /\ sync_records' = o.recs
        /\ ret' = [op |-> "check_stale", service |-> s, flag |-> FALSE,
                   val |-> PyBool(o.val),
                   before |-> RecordOf(sync_records, s),
                   revived |-> Revived(s)]
        /\ UNCHANGED <<connected, store, now, last, kg, rl, racers, clock>>

\* a faulty variant of CallGetServiceStatus: the status is refreshed by
\* check_stale before it is read
CallGetServiceStatusRefreshing ==
  \E s \in Services :
    LET o == check_stale(sync_records, s, clock)
    IN  /\ sync_records' = o.recs
        /\ ret' = SyncCall("get_status", s, FALSE,
                           get_service_status(o.recs, s))
        /\ UNCHANGED <<connected, store, now, last, kg, rl, racers, clock>>

CallGetServiceStatus ==
  \E s \in Services :
    /\ ret' = SyncCall("get_status", s, FALSE,
                       get_service_status(sync_records, s))
    /\ UNCHANGED <<connected, store, now, last, kg, rl, racers, sync_records,
                   clock>>

CallGetAllStatuses ==
  /\ ret' = [op |-> "get_all_statuses",
             val |-> PyList(get_all_statuses(sync_records))]
  /\ UNCHANGED <<connected, store, now, last, kg, rl, racers, sync_records,
                 clock>>

CallCompareTimestamps ==
  \E s \in Services, d \in ClientOffsets, aware \in BOOLEAN :
    /\ ret' = SyncCall("compare_timestamps", s, aware,
                       compare_timestamps(sync_records, s, clock + d, aware))
    /\ UNCHANGED <<connected, store, now, last, kg, rl, racers, sync_records,
                   clock>>

CallGetLatestTimestamp ==
  /\ ret' = [op |-> "get_latest_timestamp",
             val |-> get_latest_timestamp(sync_records)]
  /\ UNCHANGED <<connected, store, now, last, kg, rl, racers, sync_records,
                 clock>>

\* time passes
AdvanceClock ==
  \E t \in Instants :
    /\ t > clock
    /\ clock' = t
    /\ ret' = [op |-> "tick"]
    /\ UNCHANGED <<connected, store, now, last, kg, rl, racers, sync_records>>

InitSync ==
  /\ connected = FALSE
  /\ store = EmptyStore
  /\ now = 0
  /\ ret = NoCall
  /\ last = <<>>
  /\ kg = NoKey
  /\ rl = <<>>
  /\ racers = NoRacers
  /\ sync_records = <<>>
  /\ clock = 0

NextSync ==
  \/ CallRegister
  \/ CallUpdateSync
  \/ CallCheckStale
  \/ CallGetServiceStatus
  \/ CallGetAllStatuses
  \/ CallCompareTimestamps
  \/ CallGetLatestTimestamp
  \/ AdvanceClock

SpecSync == InitSync /\ [][NextSync]_vars

\* the names in the registry
Names(recs) == { recs[i].service : i \in 1..Len(recs) }

\* the calls on other services and the order of the dict are left alone
OthersUnchanged(s) ==
  /\ \A o \in Services \ {s} :
       RecordOf(sync_records', o) = RecordOf(sync_records, o)
  /\ \A i \in 1..Len(sync_records) :
       sync_records'[i].service = sync_records[i].service

\* C21: register(service) leaves exactly one record for the name, with
\* last_sync = last_memory_update = the registration time and status
\* active, whatever record existed before, and changes no other record.
C21_RegisterUpserts ==
  [][ret'.op = "register" =>
       LET s == ret'.service
       IN  /\ Cardinality({i \in 1..Len(sync_records') :
                             sync_records'[i].service = s}) = 1
           /\ RecordOf(sync_records', s) = SyncRecord(s, clock, clock, ACTIVE)
           /\ OthersUnchanged(s)]_vars

\* a stale record with an older memory update was registered again, next
\* to another service's record
C21_Witness ==
  /\ ret.op = "register"
  /\ ret.before # NoRecord
  /\ ret.before.status = STALE
  /\ ret.before.last_memory_update < ret.before.last_sync
  /\ RecordOf(sync_records, ret.service)
       = SyncRecord(ret.service, clock, clock, ACTIVE)
  /\ Len(sync_records) = 2

\* C22: update_sync(service, is_memory_update) on a registered service sets
\* last_sync to the current time and status to active, sets
\* last_memory_update to the current time only when is_memory_update is
\* true, and leaves every other record unchanged.
C22_UpdateSyncEffect ==
  [][(ret'.op = "update_sync" /\ Registered(sync_records, ret'.service)) =>
       LET s == ret'.service
           old == RecordOf(sync_records, s)
       IN  /\ RecordOf(sync_records', s)
                = SyncRecord(s, clock,
                             IF ret'.flag THEN clock
                             ELSE old.last_memory_update,
                             ACTIVE)
           /\ Len(sync_records') = Len(sync_records)
           /\ OthersUnchanged(s)]_vars

\* a plain sync of a stale record: last_sync moved to the present, the
\* older last_memory_update stayed, the status is active
C22_Witness ==
  /\ ret.op = "update_sync"
  /\ ~ret.flag
  /\ ret.before # NoRecord
  /\ ret.before.status = STALE
  /\ RecordOf(sync_records, ret.service)
       = SyncRecord(ret.service, clock, ret.before.last_memory_update, ACTIVE)
  /\ ret.before.last_memory_update < clock

\* C23: update_sync returns the timestamp it stored as the record's
\* last_sync, for a registered service and for one it registers.
C23_ReturnsStoredLastSync ==
  ret.op = "update_sync" =>
    ret.val = PyDatetime(RecordOf(sync_records, ret.service).last_sync)

\* C24: for a name never registered check_stale returns true, get_status
\* returns none, compare_timestamps takes the epoch as the server
\* timestamp, none of them raises and none of them adds a record; only
\* register and update_sync add one.
C24_UnknownService ==
  [][/\ ( /\ ret'.op \in {"check_stale", "get_status", "compare_timestamps"}
          /\ ~Registered(sync_records, ret'.service) ) =>
            /\ ret'.op = "check_stale" => ret'.val = PyBool(TRUE)
            /\ ret'.op = "get_status" => ret'.val = NoRecord
            /\ ret'.op = "compare_timestamps" =>
                 (~ret'.val.raised /\ ret'.val.server_timestamp = Epoch)
            /\ sync_records' = sync_records
     /\ Names(sync_records') # Names(sync_records) =>
          ret'.op \in {"register", "update_sync"}]_vars

\* C25: for a registered service check_stale returns true exactly when the
\* time since last_sync is strictly greater than the stale threshold; when
\* it returns true for an active record the status is stale afterwards, and
\* when it returns false the status is unchanged.
C25_CheckStaleStrict ==
  (ret.op = "check_stale" /\ ret.before # NoRecord) =>
    LET new == RecordOf(sync_records, ret.service)
        over == clock - ret.before.last_sync
                  > stale_threshold_ms * MicrosPerMs
    IN  /\ ret.val = PyBool(over)
        /\ (over /\ ret.before.status = ACTIVE) => new.status = STALE
        /\ ~over => new.status = ret.before.status
        /\ new.last_sync = ret.before.last_sync

\* check_stale one microsecond past the threshold found an active record
\* and left it stale
C25_Witness ==
  /\ ret.op = "check_stale"
  /\ ret.before # NoRecord
  /\ ret.before.status = ACTIVE
  /\ clock - ret.before.last_sync = stale_threshold_ms * MicrosPerMs + 1
  /\ ret.val = PyBool(TRUE)
  /\ RecordOf(sync_records, ret.service).status = STALE

\* check_stale exactly at the threshold returned false and left the record
\* active
C25_WitnessAtThreshold ==
  /\ ret.op = "check_stale"
  /\ ret.before # NoRecord
  /\ clock - ret.before.last_sync = stale_threshold_ms * MicrosPerMs
  /\ ret.val = PyBool(FALSE)
  /\ RecordOf(sync_records, ret.service).status = ACTIVE

\* C26: after update_sync on a stale record the status is active, and as
\* long as the clock is no more than the stale threshold past that
\* last_sync the record is active and check_stale returns false and leaves
\* it active.
C26_UpdateRevives ==
  /\ (ret.op = "update_sync" /\ ret.before # NoRecord
        /\ ret.before.status = STALE) =>
       RecordOf(sync_records, ret.service).status = ACTIVE
  /\ \A i \in 1..Len(sync_records) :
       clock - sync_records[i].last_sync <= stale_threshold_ms * MicrosPerMs
         => sync_records[i].status = ACTIVE
  /\ (ret.op = "check_stale" /\ ret.before # NoRecord
        /\ clock - ret.before.last_sync
             <= stale_threshold_ms * MicrosPerMs) =>
       /\ ret.val = PyBool(FALSE)
       /\ RecordOf(sync_records, ret.service).status = ACTIVE

\* check_stale right after the update_sync that revived a stale record
\* returned false and the record is active
C26_Witness ==
  /\ ret.op = "check_stale"
  /\ ret.revived
  /\ ret.val = PyBool(FALSE)
  /\ RecordOf(sync_records, ret.service).status = ACTIVE

\* check_stale exactly one threshold after a sync that took place later
\* than one threshold after the start returned false
C26_WitnessOneThresholdLater ==
  /\ ret.op = "check_stale"
  /\ ret.before # NoRecord
  /\ ret.before.last_sync > stale_threshold_ms * MicrosPerMs
  /\ ret.before.last_memory_update = 0
  /\ clock - ret.before.last_sync = stale_threshold_ms * MicrosPerMs
  /\ ret.val = PyBool(FALSE)

\* C27: check_stale on a record that is already stale returns true and
\* changes no field of any record.
C27_CheckStaleIdempotent ==
  [][(ret'.op = "check_stale" /\ Registered(sync_records, ret'.service)
        /\ RecordOf(sync_records, ret'.service).status = STALE) =>
       /\ ret'.val = PyBool(TRUE)
       /\ sync_records' = sync_records]_vars

\* check_stale was called on a record that an earlier check_stale had left
\* stale, next to an active record of another service
C27_Witness ==
  /\ ret.op = "check_stale"
  /\ ret.before # NoRecord
  /\ ret.before.status = STALE
  /\ ret.val = PyBool(TRUE)
  /\ RecordOf(sync_records, ret.service) = ret.before
  /\ \E i \in 1..Len(sync_records) : sync_records[i].status = ACTIVE

\* C28: the status of every record is active or stale in every reachable
\* state; no operation produces disconnected.
C28_StatusActiveOrStale ==
  \A i \in 1..Len(sync_records) :
    /\ sync_records[i].status \in {ACTIVE, STALE}
    /\ sync_records[i].status # DISCONNECTED

\* one record is active and the other is stale
C28_Witness ==
  /\ Len(sync_records) = 2
  /\ { sync_records[i].status : i \in 1..Len(sync_records) }
       = {ACTIVE, STALE}

\* the records that are active before the step and stale after it
TurnedStale ==
  { i \in 1..Len(sync_records) :
      /\ i <= Len(sync_records')
      /\ sync_records[i].status = ACTIVE
      /\ sync_records'[i].status = STALE }

\* C29: a record turns stale inside check_stale only: the passing of time
\* changes no record, and get_status, get_all_statuses, compare_timestamps
\* and get_latest_timestamp leave every record as it was.
C29_StaleOnlyByCheckStale ==
  [][/\ ret'.op \in {"tick", "get_status", "get_all_statuses",
                     "compare_timestamps", "get_latest_timestamp"}
          => sync_records' = sync_records
     /\ TurnedStale # {} => ret'.op = "check_stale"]_vars

\* get_status read a record as active more than one threshold after its
\* last_sync, and the record is still as it was read
C29_Witness ==
  /\ ret.op = "get_status"
  /\ ret.val # NoRecord
  /\ ret.val.status = ACTIVE
  /\ clock - ret.val.last_sync > stale_threshold_ms * MicrosPerMs
  /\ RecordOf(sync_records, ret.service) = ret.val

\* C30: with a clock that never goes back, every record has
\* last_memory_update <= last_sync in every state reached by register,
\* update_sync with either flag, and check_stale.
C30_MemoryUpdateNotAfterSync ==
  \A i \in 1..Len(sync_records) :
    sync_records[i].last_memory_update <= sync_records[i].last_sync

\* after a memory update at a later instant one record has both timestamps
\* at that instant, and the other has an older memory update than sync
C30_Witness ==
  /\ ret.op = "update_sync"
  /\ ret.flag
  /\ ret.before # NoRecord
  /\ ret.before.last_memory_update < clock
  /\ RecordOf(sync_records, ret.service).last_memory_update = clock
  /\ RecordOf(sync_records, ret.service).last_sync = clock
  /\ \E i \in 1..Len(sync_records) :
       sync_records[i].last_memory_update < sync_records[i].last_sync

\* the whole milliseconds of a difference of micros microseconds
WholeMs(micros) ==
  IF micros < 0 THEN -((-micros) \div MicrosPerMs)
  ELSE micros \div MicrosPerMs

\* C32: compare_timestamps on a registered service takes the difference of
\* the client's timestamp and the record's last_memory_update in
\* milliseconds as diff_ms, and returns is_client_newer = diff_ms > 0 and
\* needs_sync = |diff_ms| > 1000.
C32_CompareArithmetic ==
  (ret.op = "compare_timestamps" /\ ret.before # NoRecord /\ ~ret.flag) =>
    LET ms == WholeMs(ret.val.client_timestamp
                        - ret.before.last_memory_update)
    IN  /\ ret.val.server_timestamp = ret.before.last_memory_update
        /\ ret.val.diff_ms = ms
        /\ ret.val.is_client_newer = (ms > 0)
        /\ ret.val.needs_sync = (Abs(ms) > 1000)

\* C33: get_latest_timestamp returns none exactly when no service is
\* registered, and otherwise a registered service with its
\* last_memory_update, which no record's last_memory_update exceeds; a
\* plain sync of a known service does not change its result, and a memory
\* update later than every other record's makes it return the updated
\* service.
C33_LatestIsMaximum ==
  [][/\ ret'.op = "get_latest_timestamp" =>
          /\ (ret'.val = NoLatest) <=> (sync_records = <<>>)
          /\ ret'.val # NoLatest =>
               /\ \E i \in 1..Len(sync_records) :
                    /\ sync_records[i].service = ret'.val.service
                    /\ sync_records[i].last_memory_update
                         = ret'.val.timestamp
               /\ \A i \in 1..Len(sync_records) :
                    sync_records[i].last_memory_update <= ret'.val.timestamp
     /\ ( /\ ret'.op = "update_sync"
          /\ ~ret'.flag
          /\ Registered(sync_records, ret'.service) ) =>
            get_latest_timestamp(sync_records')
              = get_latest_timestamp(sync_records)
     /\ ( /\ ret'.op = "update_sync"
          /\ ret'.flag
          /\ \A i \in 1..Len(sync_records) :
               sync_records[i].service # ret'.service
                 => sync_records[i].last_memory_update < clock' ) =>
            get_latest_timestamp(sync_records').service = ret'.service]_vars

\* a was registered first, b had a later memory update, and
\* get_latest_timestamp returned b with that timestamp
C33_Witness ==
  /\ ret.op = "get_latest_timestamp"
  /\ Len(sync_records) = 2
  /\ sync_records[1].service = "a"
  /\ sync_records[1].last_memory_update < sync_records[2].last_memory_update
  /\ sync_records[1].last_memory_update < sync_records[1].last_sync
  /\ ret.val = [service |-> "b",
                timestamp |-> sync_records[2].last_memory_update]

\* C34: an is_allowed call that is denied writes nothing to the store: the
\* counter's value and its expiry are what they were before the call; and
\* a call that finds a counter at or above max_requests is denied.
C34_DeniedWritesNothing ==
  [][ret'.op = "is_allowed" =>
       LET key == ratelimit_key(ret'.id)
       IN  /\ ret'.val = PyBool(FALSE) =>
                /\ store' = store
                /\ key \in DOMAIN store
                /\ store[key].val.n >= ret'.max
           /\ ( /\ connected
                /\ ~ret'.fail
                /\ key \in DOMAIN store
                /\ store[key].val.n >= ret'.max ) =>
                  (ret'.val = PyBool(FALSE) /\ store' = store)]_vars

\* a call was denied on a counter that stands at its limit and keeps the
\* expiry of its window
C34_Witness ==
  /\ ret.op = "is_allowed"
  /\ ret.val = PyBool(FALSE)
  /\ ~ret.changed
  /\ ret.max = 2
  /\ ratelimit_key(ret.id) \in DOMAIN store
  /\ store[ratelimit_key(ret.id)].val.n = 2
  /\ store[ratelimit_key(ret.id)].exp > now

\* C35: update_session returns true only if the payload was written: it
\* returns false when the cache is disabled or the store write fails, and
\* whenever it returns true a get_session that follows returns the payload.
C35_UpdateReportsWrite ==
  ret.op = "update_session" =>
    /\ (~connected \/ ret.fail) => ret.val = PyBool(FALSE)
    /\ ret.val = PyBool(TRUE) => get_session(ret.user, FALSE).val = ret.data

\* C36: invalidate_searches(user_id) for a concrete user id removes only
\* that user's cached searches: the cached searches of every other user
\* id and the memory: and stats: entries are unchanged, its pattern matches
\* no session: or ratelimit: key, and the count it returns is the number of
\* entries removed.
C36_InvalidateOnlyThatUser ==
  [][(ret'.op = "invalidate_searches" /\ ret'.user # AnyUser) =>
       /\ \A u \in SearchUsers \ {ret'.user}, q \in Queries :
            LET k == search_key(q, u)
            IN  k \in DOMAIN store =>
                  (k \in DOMAIN store' /\ store'[k] = store[k])
       /\ \A k \in DOMAIN store :
            (\A i \in MemoryIds : k = memory_key(i))
              \/ (\A s \in StatsKeys : k = stats_entry_key(s))
              => (k \in DOMAIN store' /\ store'[k] = store[k])
       /\ \A u \in SearchUsers :
            /\ ~GlobMatch(searches_pattern(ret'.user), session_key(u))
            /\ ~GlobMatch(searches_pattern(ret'.user), ratelimit_key(u))
       /\ ret'.val = PyInt(Cardinality(DOMAIN store \ DOMAIN store'))]_vars

----------------------------------------------------------------------------
(* The status endpoints of the tracker (SpecStatus). The endpoints are
   plain functions, which the server runs on the threads of a pool, so the
   calls of other requests and the clock come between the statements of
   one. racers.calls holds the requests in progress. *)

\* a service name that is never registered
UnknownService == "c"

\* an object of the list that get_all_statuses returned: the record of the
\* service in the registry while live, and the record as it was left when
\* register_service put a new object in its place
StatusRef(service) == [service |-> service, live |-> TRUE, rec |-> NoRecord]

\* list(self.sync_records.values())
status_refs(recs) == [i \in 1..Len(recs) |-> StatusRef(recs[i].service)]

\* the fields of the object as they are now
Deref(recs, ref) == IF ref.live THEN RecordOf(recs, ref.service) ELSE ref.rec

\* the requests in progress after register_service(service): a listing
\* keeps the objects it took
Replaced(recs, service, call) ==
  IF call.op # "get_all_sync_status" THEN call
  ELSE [call EXCEPT !.statuses =
          [k \in DOMAIN call.statuses |->
             IF call.statuses[k].service = service /\ call.statuses[k].live
             THEN [service |-> service, live |-> FALSE,
                   rec |-> RecordOf(recs, service)]
             ELSE call.statuses[k]]]

\* the response of GET /sync/status/{service}, built from the result of
\* check_stale (line 189) and from the record that get_service_status
\* returns afterwards (line 190)
check_sync_status(recs, service, is_stale) ==
  [service |-> service, is_stale |-> is_stale,
   status |-> get_service_status(recs, service)]

\* GET /sync/status after statuses = sync_manager.get_all_statuses(): i is
\* the object whose entry is being built, reading names the item of the dict
\* display that is evaluated next, entry holds the items evaluated so far
NoEntry ==
  [service |-> "None", last_sync |-> 0, last_memory_update |-> 0,
   status |-> "None"]

Listing(statuses, i, reading, entry, entries) ==
  [op |-> "get_all_sync_status", statuses |-> statuses, i |-> i,
   reading |-> reading, entry |-> entry, entries |-> entries]

\* the next item of the dict display of an entry (lines 206-210), evaluated
\* with the clock at t: "is_stale" calls check_stale, which reads the clock
\* itself, and ends the entry
listing_step(recs, call, t) ==
  LET ref == call.statuses[call.i]
      s == Deref(recs, ref)
  IN  IF call.reading = "last_sync"
      THEN [recs |-> recs,
            call |-> [call EXCEPT !.reading = "last_memory_update",
                                  !.entry = [NoEntry EXCEPT
                                               !.service = ref.service,
                                               !.last_sync = s.last_sync]]]
      ELSE IF call.reading = "last_memory_update"
      THEN [recs |-> recs,
            call |-> [call EXCEPT !.reading = "status",
                                  !.entry.last_memory_update =
                                     s.last_memory_update]]
      ELSE IF call.reading = "status"
      THEN [recs |-> recs,
            call |-> [call EXCEPT !.reading = "is_stale",
                                  !.entry.status = s.status]]
      ELSE LET o == check_stale(recs, ref.service, t)
           IN  [recs |-> o.recs,
                call |-> Listing(call.statuses, call.i + 1, "last_sync",
                                 NoEntry,
                                 Append(call.entries,
                                        [service |-> call.entry.service,
                                         last_sync |-> call.entry.last_sync,
                                         last_memory_update |->
                                           call.entry.last_memory_update,
                                         status |-> call.entry.status,
                                         is_stale |-> o.val]))]

\* POST /sync/register/{service}
CallRegisterService ==
  \E s \in Services :
    LET after(call) == Replaced(sync_records, s, call)
    IN  /\ sync_records' = register_service(sync_records, s, clock)
        /\ racers' = [calls |-> BagOfAll(after, racers.calls)]
        /\ ret' = [op |-> "register_service", service |-> s,
                   registered |-> TRUE]
        /\ UNCHANGED <<connected, store, now, last, kg, rl, clock>>

\* GET /sync/status/{service} is called: is_stale = check_stale(service)
CallCheckSyncStatus ==
  /\ BagCardinality(racers.calls) < NumCallers
  /\ \E s \in Services \cup {UnknownService} :
       LET o == check_stale(sync_records, s, clock)
       IN  /\ sync_records' = o.recs
           /\ racers' = Enter([op |-> "check_sync_status", service |-> s,
                               is_stale |-> o.val])
           /\ ret' = [op |-> "check_stale"]
           /\ UNCHANGED <<connected, store, now, last, kg, rl, clock>>

\* status = get_service_status(service), and the response
CheckSyncStatusReturn ==
  \E call \in BagToSet(racers.calls) :
    /\ call.op = "check_sync_status"
    /\ ret' = SyncCall("check_sync_status", call.service, FALSE,
                       check_sync_status(sync_records, call.service,
                                         call.is_stale))
    /\ racers' = Leave(call)
    /\ UNCHANGED <<connected, store, now, last, kg, rl, sync_records, clock>>

\* GET /sync/status is called: statuses = sync_manager.get_all_statuses().
\* One listing is followed at a time.
CallGetAllSyncStatus ==
  /\ BagCardinality(racers.calls) < NumCallers
  /\ \A call \in BagToSet(racers.calls) : call.op # "get_all_sync_status"
  /\ IF sync_records = <<>>
     THEN /\ ret' = [op |-> "get_all_sync_status", val |-> PyList(<<>>)]
          /\ racers' = racers
     ELSE /\ ret' = [op |-> "statuses"]
          /\ racers' = Enter(Listing(status_refs(sync_records), 1,
                                     "last_sync", NoEntry, <<>>))
  /\ UNCHANGED <<connected, store, now, last, kg, rl, sync_records, clock>>

\* the next item of a listing in progress; the listing returns after the
\* last entry
GetAllSyncStatusStep ==
  \E call \in BagToSet(racers.calls) :
    /\ call.op = "get_all_sync_status"
    /\ LET n == listing_step(sync_records, call, clock)
       IN  /\ sync_records' = n.recs
           /\ IF n.call.i > Len(n.call.statuses)
              THEN /\ ret' = [op |-> "get_all_sync_status",
                              val |-> PyList(n.call.entries)]
                   /\ racers' = Leave(call)
              ELSE /\ ret' = [op |-> "item"]
                   /\ racers' = [calls |-> Leave(call).calls
                                             (+) SetToBag({n.call})]
    /\ UNCHANGED <<connected, store, now, last, kg, rl, clock>>

\* POST /sync: update_sync, and the response. The updates watched here
\* are plain syncs; SpecSync covers the memory updates.
CallSyncTimestamp ==
  \E s \in Services, is_memory_update \in {FALSE} :
    LET o == update_sync(sync_records, s, is_memory_update, clock, clock)
    IN  /\ sync_records' = o.recs
        /\ ret' = [op |-> "sync_timestamp", service |-> s,
                   timestamp |-> PyDatetime(o.val),
                   is_memory_update |-> is_memory_update, success |-> TRUE]
        /\ UNCHANGED <<connected, store, now, last, kg, rl, racers, clock>>

\* the instants at which the clock is read while the endpoints are watched
StatusInstants ==
  {t \in Instants : t <= stale_threshold_ms * MicrosPerMs + MaxDrift}

\* time passes
AdvanceClockStatus ==
  \E t \in StatusInstants :
    /\ t > clock
    /\ clock' = t
    /\ ret' = [op |-> "tick"]
    /\ UNCHANGED <<connected, store, now, last, kg, rl, racers, sync_records>>

\* the services were registered when the module was loaded
InitStatus ==
  /\ connected = FALSE
  /\ store = EmptyStore
  /\ now = 0
  /\ ret = NoCall
  /\ last = <<>>
  /\ kg = NoKey
  /\ rl = <<>>
  /\ clock = 0
  /\ sync_records = register_service(register_service(<<>>, "a", 0), "b", 0)
  /\ racers = NoCalls

NextStatus ==
  \/ CallRegisterService
  \/ CallSyncTimestamp
  \/ AdvanceClockStatus
  \/ CallCheckSyncStatus
  \/ CheckSyncStatusReturn
  \/ CallGetAllSyncStatus
  \/ GetAllSyncStatusStep

SpecStatus == InitStatus /\ [][NextStatus]_vars

\* C38: in the response of check_sync_status and in every entry of the
\* response of get_all_sync_status, a registered service with is_stale true
\* is reported with status stale, and one with is_stale false with status
\* active.
C38_StatusMatchesIsStale ==
  /\ (ret.op = "check_sync_status" /\ ret.val.status # NoRecord) =>
       ret.val.status.status = IF ret.val.is_stale THEN STALE ELSE ACTIVE
  /\ ret.op = "get_all_sync_status" =>
       \A i \in 1..Len(ret.val.xs) :
         ret.val.xs[i].status
           = IF ret.val.xs[i].is_stale THEN STALE ELSE ACTIVE

----------------------------------------------------------------------------
(* Concurrent update_sync and check_stale calls on one registered service
   (SpecConc). The endpoints are plain functions, which the server runs on
   the threads of a pool; the manager takes no lock, so the reads and
   writes of the record's fields by different callers interleave. *)

SyncService == "a"

\* racers.pc[c]: "idle" between calls; in update_sync "last_sync", "memory"
\* and "status" name the field that is written next; in check_stale
\* "compare" is the computation of is_stale that comes next, "test" the
\* test of record.status, "flip" the write of STALE. racers.t[c] is the
\* caller's local now, racers.latest the latest now taken by an update_sync.
SyncStep(c, op, step) == [op |-> op, caller |-> c, step |-> step]

Goto(c, pc) == [racers EXCEPT !.pc[c] = pc]

\* the record of the service with one field written
WriteField(field, value) ==
  LET i == IndexOf(sync_records, SyncService)
  IN  [sync_records EXCEPT ![i] = [@ EXCEPT ![field] = value]]

\* update_sync: now = datetime.now(), and the service is found registered
UpdateReadClock(c) ==
  \E is_memory_update \in BOOLEAN :
    /\ racers.pc[c] = "idle"
    /\ Registered(sync_records, SyncService)
    /\ racers' = [racers EXCEPT !.pc[c] = "last_sync", !.t[c] = clock,
                                !.flag[c] = is_memory_update,
                                !.latest = IF clock > @ THEN clock ELSE @]
    /\ ret' = SyncStep(c, "update_sync", "now")
    /\ UNCHANGED <<connected, store, now, last, kg, rl, sync_records, clock>>

\* record.last_sync = now
UpdateWriteLastSync(c) ==
  /\ racers.pc[c] = "last_sync"
  /\ sync_records' = WriteField("last_sync", racers.t[c])
  /\ racers' = Goto(c, IF racers.flag[c] THEN "memory" ELSE "status")
  /\ ret' = SyncStep(c, "update_sync", "last_sync")
  /\ UNCHANGED <<connected, store, now, last, kg, rl, clock>>

\* record.last_memory_update = now
UpdateWriteMemory(c) ==
  /\ racers.pc[c] = "memory"
  /\ sync_records' = WriteField("last_memory_update", racers.t[c])
  /\ racers' = Goto(c, "status")
  /\ ret' = SyncStep(c, "update_sync", "last_memory_update")
  /\ UNCHANGED <<connected, store, now, last, kg, rl, clock>>

\* record.status = ServiceStatus.ACTIVE; return now
UpdateWriteStatus(c) ==
  /\ racers.pc[c] = "status"
  /\ sync_records' = WriteField("status", ACTIVE)
  /\ racers' = [racers EXCEPT !.pc[c] = "idle", !.t[c] = 0,
                              !.flag[c] = FALSE]
  /\ ret' = SyncStep(c, "update_sync", "status")
  /\ UNCHANGED <<connected, store, now, last, kg, rl, clock>>

\* check_stale: the service is found registered; now = datetime.now()
CheckReadClock(c) ==
  /\ racers.pc[c] = "idle"
  /\ Registered(sync_records, SyncService)
  /\ racers' = [racers EXCEPT !.pc[c] = "compare", !.t[c] = clock]
  /\ ret' = SyncStep(c, "check_stale", "now")
  /\ UNCHANGED <<connected, store, now, last, kg, rl, sync_records, clock>>

\* diff_ms = (now - record.last_sync)...; is_stale = diff_ms > threshold;
\* `if is_stale and ...` returns False at once when is_stale is false
CheckCompare(c) ==
  /\ racers.pc[c] = "compare"
  /\ racers' = IF is_stale_at(RecordOf(sync_records, SyncService),
                              racers.t[c])
               THEN Goto(c, "test")
               ELSE [racers EXCEPT !.pc[c] = "idle", !.t[c] = 0]
  /\ ret' = SyncStep(c, "check_stale", "is_stale")
  /\ UNCHANGED <<connected, store, now, last, kg, rl, sync_records, clock>>

\* ... and record.status == ServiceStatus.ACTIVE
CheckTestStatus(c) ==
  /\ racers.pc[c] = "test"
  /\ racers' = IF RecordOf(sync_records, SyncService).status = ACTIVE
               THEN Goto(c, "flip")
               ELSE [racers EXCEPT !.pc[c] = "idle", !.t[c] = 0]
  /\ ret' = SyncStep(c, "check_stale", "test")
  /\ UNCHANGED <<connected, store, now, last, kg, rl, sync_records, clock>>

\* record.status = ServiceStatus.STALE; return True
CheckFlip(c) ==
  /\ racers.pc[c] = "flip"
  /\ sync_records' = WriteField("status", STALE)
  /\ racers' = [racers EXCEPT !.pc[c] = "idle", !.t[c] = 0]
  /\ ret' = SyncStep(c, "check_stale", "flip")
  /\ UNCHANGED <<connected, store, now, last, kg, rl, clock>>

\* time passes
AdvanceClockConc ==
  \E t \in Instants :
    /\ t > clock
    /\ clock' = t
    /\ ret' = [op |-> "tick"]
    /\ UNCHANGED <<connected, store, now, last, kg, rl, racers,
                   sync_records>>

\* the service was registered when the module was loaded
InitConc ==
  /\ connected = FALSE
  /\ store = EmptyStore
  /\ now = 0
  /\ ret = NoCall
  /\ last = <<>>
  /\ kg = NoKey
  /\ rl = <<>>
  /\ clock = 0
  /\ sync_records = register_service(<<>>, SyncService, 0)
  /\ racers = [pc |-> [c \in Callers |-> "idle"],
               t |-> [c \in Callers |-> 0],
               flag |-> [c \in Callers |-> FALSE],
               latest |-> 0]

NextConc ==
  \/ \E c \in Callers : UpdateReadClock(c)
  \/ \E c \in Callers : UpdateWriteLastSync(c)
  \/ \E c \in Callers : UpdateWriteMemory(c)
  \/ \E c \in Callers : UpdateWriteStatus(c)
  \/ \E c \in Callers : CheckReadClock(c)
  \/ \E c \in Callers : CheckCompare(c)
  \/ \E c \in Callers : CheckTestStatus(c)
  \/ \E c \in Callers : CheckFlip(c)
  \/ AdvanceClockConc

SpecConc == InitConc /\ [][NextConc]_vars

\* no call is in progress
Quiescent == \A c \in Callers : racers.pc[c] = "idle"

\* C31: under any interleaving of concurrent check_stale and update_sync
\* calls on a service, whenever no call is in progress a record with status
\* stale has a last_sync more than the stale threshold in the past.
C31_StaleFlipNotAfterUpdate ==
  Quiescent =>
    \A i \in 1..Len(sync_records) :
      sync_records[i].status = STALE
        => is_stale_at(sync_records[i], clock)

\* C37: under any interleaving of concurrent update_sync calls on a
\* registered service, with a clock that does not go back, last_sync never
\* decreases, and once all calls have completed last_sync is the latest
\* timestamp taken by any of them and last_memory_update <= last_sync.
C37_LastSyncMonotone ==
  [][LET old == RecordOf(sync_records, SyncService)
         new == RecordOf(sync_records', SyncService)
     IN  /\ new.last_sync >= old.last_sync
         /\ Quiescent' =>
              /\ new.last_sync = racers'.latest
              /\ new.last_memory_update <= new.last_sync]_vars

====
